---------------------------- MODULE Spec2Model ----------------------------
(***************************************************************************)
(* A model of the gopdb parsing stack: the MSF container (super-block,     *)
(* stream directory, per-stream reader), the PDB info and TPI stream       *)
(* parsers and the facade that ties them together.                         *)
(*                                                                         *)
(* Conventions.  A Go pointer or error that may be nil is a sequence of    *)
(* length 0 (nil) or 1 (the value).  A uint32 is an integer; the values    *)
(* at or above 2^31 are held as their two's-complement int32 (0xFFFFFFFF   *)
(* is -1), because the model checker's integers are 32 bits wide.          *)
(***************************************************************************)
EXTENDS Integers, Sequences, FiniteSets, TLC

VARIABLES
    sbIn,       \* the bytes the reader handed to ReadSuperBlock delivers
    sbOut,      \* <<>> before the call, <<result>> after it
    file,       \* the backing file of msf.Open
    msf,        \* <<>> (no handle) or <<the MSF>>
    openRet,    \* <<>> before msf.Open, <<its error result>> after it
    readers,    \* the StreamReaders, by id: <<>> or <<the reader>>
    call,       \* the Read or ReadAll call in progress (fn = "none": idle)
    ret,        \* what the last finished call returned
    tpiIn,      \* the bytes handed to ReadTPIStream
    tpiOut,     \* <<>> before the call, <<result>> after it
    tpiGet,     \* <<>> or <<the last GetType call: its index and its result>>
    infoFull,   \* the PDB info stream as its writer laid it out
    infoIn,     \* the bytes of it the reader handed to ReadPDBInfo delivers
    infoOut,    \* <<>> before the call, <<result>> after it
    pdbImg,     \* the PDB file handed to the facade's Open
    pdb,        \* <<>> (no handle) or <<the PDB>>
    pdbRet,     \* what the last facade call returned
    pdbFirst,   \* per cached list: <<>> or <<what its first call returned>>
    pdbWork,    \* the facade's work so far: streams read, lists computed, calls
    dmIn,       \* the decorated name handed to the demangler
    dmOut,      \* <<>> before the call, <<result>> after it
    numIn,      \* the bytes handed to ParseNumeric
    numOut,     \* <<>> before the call, <<result>> after it
    tyIn,       \* <<>> or <<the type resolver>>
    tyOut,      \* <<>> before the call, <<the call and its result>> after it
    symIn,      \* <<>> or <<the bytes handed to the symbol parsers>>
    symOut,     \* <<>> before the call, <<the call and its result>> after it
    dbiIn,      \* <<>> or <<the bytes handed to ReadDBIStream>>
    dbiOut      \* <<>> before the call, <<result>> after it

vars == <<sbIn, sbOut, file, msf, openRet, readers, call, ret,
          tpiIn, tpiOut, tpiGet, infoFull, infoIn, infoOut,
          pdbImg, pdb, pdbRet, pdbFirst, pdbWork,
          dmIn, dmOut, numIn, numOut, tyIn, tyOut, symIn, symOut, dbiIn, dbiOut>>

dmVars == <<dmIn, dmOut>>

numVars == <<numIn, numOut>>

tyVars == <<tyIn, tyOut>>

symVars == <<symIn, symOut>>

dbiVars == <<dbiIn, dbiOut>>

\* The inputs and results of the functions checked on their own.
pureVars == <<dmVars, numVars, tyVars, symVars, dbiVars>>

sbVars == <<sbIn, sbOut>>

msfVars == <<file, msf, openRet, readers, call, ret>>

tpiVars == <<tpiIn, tpiOut, tpiGet>>

infoVars == <<infoIn, infoFull, infoOut>>

pdbVars == <<pdbImg, pdb, pdbRet, pdbFirst, pdbWork>>

\* Everything outside the MSF container.
aboveMSF == <<tpiVars, infoVars, pdbVars>>

(***************************************************************************)
(* General helpers.                                                        *)
(***************************************************************************)
Min(a, b) == IF a < b THEN a ELSE b

Max(a, b) == IF a > b THEN a ELSE b

Take(s, n) == SubSeq(s, 1, Min(n, Len(s)))

Drop(s, n) == SubSeq(s, n + 1, Len(s))

\* binary.LittleEndian.Uint32 of four bytes, as the int32 with the same bits.
DecodeLE32(b) ==
    b[1] + 256 * b[2] + 65536 * b[3]
      + 16777216 * (IF b[4] >= 128 THEN b[4] - 256 ELSE b[4])

\* The four little-endian bytes of a value in 0 .. 2^31 - 1.
EncodeLE32(v) ==
    << v % 256, (v \div 256) % 256, (v \div 65536) % 256, (v \div 16777216) % 256 >>

NoError == << >>

Errorf(msg, arg) == << [msg |-> msg, arg |-> arg] >>

(***************************************************************************)
(* msf/superblock.go                                                       *)
(***************************************************************************)
\* "Microsoft C/C++ MSF 7.00\r\n\x1aDS\x00\x00\x00"
MSFMagic ==
    << 77, 105, 99, 114, 111, 115, 111, 102, 116, 32, 67, 47, 67, 43, 43, 32,
       77, 83, 70, 32, 55, 46, 48, 48, 13, 10, 26, 68, 83, 0, 0, 0 >>

MagicSize == 32

SuperBlockSize == 56

ValidBlockSizes == {512, 1024, 2048, 4096}

\* A variant that takes any size from 512 up.
isValidBlockSizeFrom512(size) == size >= 512

isValidBlockSize(size) == \E valid \in ValidBlockSizes : size = valid

\* binary.Read of one uint32 at byte offset off of data: <<>> when fewer
\* than four bytes are left (io.EOF or io.ErrUnexpectedEOF).
ReadU32At(data, off) ==
    IF off + 4 <= Len(data) THEN << DecodeLE32(SubSeq(data, off + 1, off + 4)) >>
    ELSE << >>

ReadSuperBlockFields(data) ==
    LET bs  == ReadU32At(data, 32)
        fpm == ReadU32At(data, 36)
        nb  == ReadU32At(data, 40)
        ndb == ReadU32At(data, 44)
        unk == ReadU32At(data, 48)
        bma == ReadU32At(data, 52)
    IN  IF bs = << >> THEN [err |-> Errorf("failed to read BlockSize", 0), sb |-> << >>]
        ELSE IF fpm = << >> THEN [err |-> Errorf("failed to read FreeBlockMapBlock", 0), sb |-> << >>]
        ELSE IF nb = << >> THEN [err |-> Errorf("failed to read NumBlocks", 0), sb |-> << >>]
        ELSE IF ndb = << >> THEN [err |-> Errorf("failed to read NumDirectoryBytes", 0), sb |-> << >>]
        ELSE IF unk = << >> THEN [err |-> Errorf("failed to read Unknown", 0), sb |-> << >>]
        ELSE IF bma = << >> THEN [err |-> Errorf("failed to read BlockMapAddr", 0), sb |-> << >>]
        ELSE IF ~isValidBlockSize(bs[1])
             THEN [err |-> Errorf("invalid block size: %d", bs[1]), sb |-> << >>]
        ELSE IF fpm[1] # 1 /\ fpm[1] # 2
             THEN [err |-> Errorf("invalid FreeBlockMapBlock: %d (must be 1 or 2)", fpm[1]),
                   sb |-> << >>]
        ELSE [err |-> NoError,
              sb  |-> << [Magic |-> Take(data, MagicSize), BlockSize |-> bs[1],
                          FreeBlockMapBlock |-> fpm[1], NumBlocks |-> nb[1],
                          NumDirectoryBytes |-> ndb[1], Unknown |-> unk[1],
                          BlockMapAddr |-> bma[1]] >>]

ReadSuperBlock(data) ==
    IF Len(data) < MagicSize
    THEN [err |-> Errorf("failed to read magic", 0), sb |-> << >>]
    ELSE IF Take(data, MagicSize) # MSFMagic
    THEN [err |-> Errorf("invalid MSF magic: not a valid PDB file", 0), sb |-> << >>]
    ELSE ReadSuperBlockFields(data)

\* uint32 arithmetic on the int32 encoding.  MaxInt32 is 2^31 - 1.
MaxInt32 == 2147483647

\* a + b in uint32 (wrapping at 2^32), for b in 0 .. 2^31 - 1.
U32Add(a, b) ==
    IF a < 0 THEN a + b
    ELSE IF a <= MaxInt32 - b THEN a + b
    ELSE ((a - MaxInt32) - 1) + ((b - MaxInt32) - 1)

\* a / d in uint32 (the value of a taken unsigned), for d in 1 .. 2^31 - 1.
U32Div(a, d) ==
    IF a >= 0 THEN a \div d
    ELSE LET x == (a + MaxInt32) + 1            \* the unsigned value minus 2^31
             q == (MaxInt32 \div d) + (IF MaxInt32 % d = d - 1 THEN 1 ELSE 0)
             r == ((MaxInt32 % d) + 1) % d      \* 2^31 = q * d + r
         IN  (x \div d) + q + (((x % d) + r) \div d)

\* a < b with both taken unsigned.
U32Less(a, b) ==
    IF (a < 0) = (b < 0) THEN a < b ELSE b < 0

\* (bytes + blockSize - 1) / blockSize, in uint32.
CeilDivU32(bytes, blockSize) == U32Div(U32Add(bytes, blockSize - 1), blockSize)

NumDirectoryBlocks(sb) == CeilDivU32(sb.NumDirectoryBytes, sb.BlockSize)

\* int64(NumBlocks) * int64(BlockSize); the model's block counts are small.
FileSize(sb) == sb.NumBlocks * sb.BlockSize

(***************************************************************************)
(* msf/stream.go: the backing file, the stream directory and msf.Open      *)
(*                                                                         *)
(* The file is [exists, hdr, length, bmap, dir]: hdr holds its first bytes *)
(* (the super-block), length its size in bytes, bmap the uint32 words of   *)
(* the block that BlockMapAddr names and dir the uint32 words held, in     *)
(* block-map order, by the blocks bmap lists.  Every other byte is named   *)
(* by its file offset: the data a stream read returns is the list of       *)
(* <<file offset, count>> extents it was copied from.                      *)
(***************************************************************************)
ErrEOF == Errorf("EOF", 0)

ErrUnexpectedEOF == Errorf("unexpected EOF", 0)

ErrClosed == Errorf("file already closed", 0)

Wrap(msg, err) == Errorf(msg, err[1])

\* 0xFFFFFFFF
UnusedStreamSize == -1

\* os.File.ReadAt(buf of n bytes, off): the count read and the error.
FileReadAt(f, closed, n, off) ==
    IF closed THEN [n |-> 0, err |-> ErrClosed]
    ELSE IF n = 0 THEN [n |-> 0, err |-> NoError]
    ELSE LET avail == Max(0, Min(n, f.length - off))
         IN  [n |-> avail, err |-> IF avail < n THEN ErrEOF ELSE NoError]

RECURSIVE ParseBlockLists(_, _, _, _, _, _)
\* The loop over the streams' block lists: pos words are consumed so far,
\* i is the next stream (1-based), acc the block lists read.
ParseBlockLists(words, pos, sizes, i, blockSize, acc) ==
    IF i > Len(sizes) THEN [err |-> NoError, blocks |-> acc]
    ELSE IF sizes[i] = UnusedStreamSize
    THEN ParseBlockLists(words, pos, sizes, i + 1, blockSize, Append(acc, << >>))
    ELSE LET numBlocks == CeilDivU32(sizes[i], blockSize)
         IN  IF numBlocks > Len(words) - pos
             THEN [err |-> Errorf("failed to read block index for stream %d", i - 1),
                   blocks |-> << >>]
             ELSE ParseBlockLists(words, pos + numBlocks, sizes, i + 1, blockSize,
                                  Append(acc, SubSeq(words, pos + 1, pos + numBlocks)))

\* words: the uint32 words of the directory bytes.
parseStreamDirectory(words, blockSize) ==
    IF Len(words) < 1
    THEN [err |-> Errorf("failed to read NumStreams", 0), directory |-> << >>]
    ELSE LET numStreams == words[1]
         IN  IF U32Less(Len(words) - 1, numStreams)
             THEN [err |-> Errorf("failed to read stream size %d", Len(words) - 1),
                   directory |-> << >>]
             ELSE LET streamSizes == SubSeq(words, 2, 1 + numStreams)
                      lists == ParseBlockLists(words, 1 + numStreams, streamSizes, 1,
                                               blockSize, << >>)
                  IN  IF lists.err # NoError
                      THEN [err |-> lists.err, directory |-> << >>]
                      ELSE [err |-> NoError,
                            directory |-> << [NumStreams   |-> numStreams,
                                              StreamSizes  |-> streamSizes,
                                              StreamBlocks |-> lists.blocks] >>]

\* A variant that keeps the directory's size for an unused stream.
buildStreamsKeepingSize(directory) ==
    [i \in 1 .. directory.NumStreams |->
        [size |-> directory.StreamSizes[i], blocks |-> directory.StreamBlocks[i]]]

buildStreams(directory) ==
    [i \in 1 .. directory.NumStreams |->
        IF directory.StreamSizes[i] = UnusedStreamSize
        THEN [size |-> 0, blocks |-> << >>]
        ELSE [size |-> directory.StreamSizes[i], blocks |-> directory.StreamBlocks[i]]]

BlockMapWord(f, i) == IF i <= Len(f.bmap) THEN f.bmap[i] ELSE 0

RECURSIVE ReadDirectoryBlocks(_, _, _, _, _)
\* The loop over the block map: <<>> when every block was read in full,
\* else the error of the first short read.
ReadDirectoryBlocks(f, sb, blockMap, i, bytesRead) ==
    IF i > Len(blockMap) THEN NoError
    ELSE LET offset == blockMap[i] * sb.BlockSize
             toRead == Min(sb.BlockSize, sb.NumDirectoryBytes - bytesRead)
             got    == FileReadAt(f, FALSE, toRead, offset)
         IN  IF got.err # NoError
             THEN Errorf("failed to read directory block %d", blockMap[i])
             ELSE ReadDirectoryBlocks(f, sb, blockMap, i + 1, bytesRead + toRead)

readStreamDirectory(f, sb) ==
    LET blockMapOffset == sb.BlockMapAddr * sb.BlockSize
        numDirBlocks   == NumDirectoryBlocks(sb)
        blockMap       == [i \in 1 .. numDirBlocks |-> BlockMapWord(f, i)]
    IN  IF numDirBlocks > 0 /\ blockMapOffset + 4 * numDirBlocks > f.length
        THEN [err |-> Errorf("failed to read block map", 0), directory |-> << >>]
        ELSE LET rd == ReadDirectoryBlocks(f, sb, blockMap, 1, 0)
             IN  IF rd # NoError THEN [err |-> rd, directory |-> << >>]
                 ELSE parseStreamDirectory(Take(f.dir, sb.NumDirectoryBytes \div 4),
                                           sb.BlockSize)

\* msf.Open: the error and the handle.
MSFOpen(f) ==
    IF ~f.exists THEN [err |-> Errorf("failed to open file", 0), msf |-> << >>]
    ELSE LET sbr == ReadSuperBlock(Take(f.hdr, f.length))
         IN  IF sbr.err # NoError
             THEN [err |-> Wrap("failed to read superblock: %w", sbr.err), msf |-> << >>]
             ELSE LET dr == readStreamDirectory(f, sbr.sb[1])
                  IN  IF dr.err # NoError
                      THEN [err |-> Wrap("failed to read stream directory: %w", dr.err),
                            msf |-> << >>]
                      ELSE [err |-> NoError,
                            msf |-> << [superBlock |-> sbr.sb[1],
                                        directory  |-> dr.directory[1],
                                        streams    |-> buildStreams(dr.directory[1]),
                                        closed     |-> FALSE] >>]

NumStreams(m) == m.directory.NumStreams

\* MSF.Stream(index): <<>> with an error when index is out of range.
MSFStream(m, index) ==
    IF index < 0 \/ index >= Len(m.streams) THEN << >> ELSE << m.streams[index + 1] >>

(***************************************************************************)
(* msf/stream.go: StreamReader                                             *)
(*                                                                         *)
(* A reader is [stream, offset, blockOffset, posInBlock]; stream is the    *)
(* index of the stream it points to.                                       *)
(***************************************************************************)
NewStreamReader(index) ==
    [stream |-> index, offset |-> 0, blockOffset |-> 0, posInBlock |-> 0]

\* offset >= int64(size), the size taken unsigned.
AtOrPastEnd(offset, size) == size >= 0 /\ offset >= size

\* One pass through the body of Read's loop, with plen = len(p) > 0 and the
\* cursor before the end.  kind is "panic" (blocks indexed out of range),
\* "error" (readAt failed with something other than io.EOF) or "next".
ReadLoopBody(f, m, sr, plen) ==
    LET st        == m.streams[sr.stream + 1]
        blockSize == m.superBlock.BlockSize
        remainingInBlock == blockSize - sr.posInBlock
        inBlock   == Min(plen, remainingInBlock)
        toRead    == IF st.size >= 0 THEN Min(inBlock, st.size - sr.offset) ELSE inBlock
    IN  IF sr.blockOffset < 0 \/ sr.blockOffset >= Len(st.blocks)
        THEN [kind |-> "panic", n |-> 0, err |-> NoError, ext |-> << >>, sr |-> sr]
        ELSE LET blockIndex == st.blocks[sr.blockOffset + 1]
                 fileOffset == blockIndex * blockSize + sr.posInBlock
                 got        == FileReadAt(f, m.closed, toRead, fileOffset)
                 moved      == [sr EXCEPT !.offset = sr.offset + got.n,
                                          !.posInBlock = sr.posInBlock + got.n]
                 after      == IF moved.posInBlock >= blockSize
                               THEN [moved EXCEPT !.blockOffset = sr.blockOffset + 1,
                                                  !.posInBlock = 0]
                               ELSE moved
             IN  IF got.err # NoError /\ got.err # ErrEOF
                 THEN [kind |-> "error", n |-> got.n, err |-> got.err, ext |-> << >>, sr |-> sr]
                 ELSE [kind |-> "next", n |-> got.n, err |-> NoError,
                       ext  |-> IF got.n > 0 THEN << <<fileOffset, got.n>> >> ELSE << >>,
                       sr   |-> after]

\* StreamReader.Seek: the reader after it (the call returns its offset).
SeekReader(m, sr, offset, whence) ==
    LET size      == m.streams[sr.stream + 1].size
        blockSize == m.superBlock.BlockSize
        requested == CASE whence = 0 -> offset
                       [] whence = 1 -> sr.offset + offset
                       [] whence = 2 -> size + offset
                       [] OTHER      -> 0
        atLeast0  == IF requested < 0 THEN 0 ELSE requested
        newOffset == IF size >= 0 /\ atLeast0 > size THEN size ELSE atLeast0
    IN  [sr EXCEPT !.offset = newOffset,
                   !.blockOffset = newOffset \div blockSize,
                   !.posInBlock = newOffset % blockSize]

(***************************************************************************)
(* The calls on an MSF and its readers.  Read's loop runs one pass per     *)
(* step (ReadLoopStep) until its condition fails (ReadLoopExit); the code  *)
(* is single-threaded, so no other call starts while one is in progress.   *)
(* Stream.ReadAll runs io.ReadFull over a reader of its own, held in the   *)
(* call frame.                                                             *)
(***************************************************************************)
Idle == [fn |-> "none"]

Panicked == [fn |-> "panic"]

\* What a call returned: its count or offset, its error and, for Read and
\* ReadAll, the bytes it delivered.
Ret(fn, n, err, data) == [fn |-> fn, n |-> n, err |-> err, data |-> data]

Frame(fn, rd, sr, p, start, arg, got, data) ==
    [fn |-> fn, rd |-> rd, sr |-> sr, p |-> p, total |-> 0, data |-> data,
     start |-> start, arg |-> arg, got |-> got]

\* The reader the call in progress reads through.
CurReader == IF call.fn = "ReadAll" THEN call.sr ELSE readers[call.rd][1]

StreamSizeOf(sr) == msf[1].streams[sr.stream + 1].size

\* The condition of Read's for loop (a len(p) of 2^31 or more is held as
\* a negative number, like a size).
ReadLoopCond(sr, p) == p # 0 /\ ~AtOrPastEnd(sr.offset, StreamSizeOf(sr))

\* io.ReadFull's result once its loop has ended with n bytes and err.
ReadFullErr(n, min, err) ==
    IF n >= min THEN NoError
    ELSE IF n > 0 /\ err = ErrEOF THEN ErrUnexpectedEOF
    ELSE err

\* Stream.ReadAll's return after io.ReadFull ended with n bytes and err.
ReadAllRet(min, n, err, data) ==
    LET e == ReadFullErr(n, min, err)
    IN  IF e # NoError THEN Ret("ReadAll", 0, e, << >>)
        ELSE Ret("ReadAll", min, NoError, data)

\* Read returns (nn, err) with the reader left as sr: to the caller of Read,
\* or into io.ReadFull's loop, which calls Read again or ends.
FinishRead(sr, nn, err, data) ==
    IF call.fn = "Read"
    THEN /\ ret' = Ret("Read", nn, err, data)
         /\ call' = Idle
    ELSE LET min == StreamSizeOf(sr)
             got == call.got + nn
         IN  IF got < min /\ err = NoError
             THEN IF AtOrPastEnd(sr.offset, min)
                  THEN /\ ret' = ReadAllRet(min, got, ErrEOF, data)
                       /\ call' = Idle
                  ELSE /\ call' = Frame("ReadAll", 0, sr, min - got, sr.offset, call.arg,
                                        got, data)
                       /\ ret' = ret
             ELSE /\ ret' = ReadAllRet(min, got, err, data)
                  /\ call' = Idle

CallOpen ==
    /\ call = Idle
    /\ openRet = << >>
    /\ LET r == MSFOpen(file)
       IN  /\ msf' = r.msf
           /\ openRet' = << r.err >>
           /\ ret' = Ret("Open", 0, r.err, << >>)
    /\ UNCHANGED <<pureVars, sbVars, aboveMSF, file, readers, call>>

\* MSF.StreamReader(index), its result kept as reader r.
CallStreamReader(r, index) ==
    /\ call = Idle
    /\ msf # << >>
    /\ IF MSFStream(msf[1], index) = << >>
       THEN /\ ret' = Ret("StreamReader", 0,
                          Errorf("stream index %d out of range [0, %d)", index), << >>)
            /\ UNCHANGED readers
       ELSE /\ ret' = Ret("StreamReader", 0, NoError, << >>)
            /\ readers' = [readers EXCEPT ![r] = << NewStreamReader(index) >>]
    /\ UNCHANGED <<pureVars, sbVars, aboveMSF, file, msf, openRet, call>>

\* reader r's Read(p) with len(p) = plen.
CallRead(r, plen) ==
    /\ call = Idle
    /\ msf # << >>
    /\ readers[r] # << >>
    /\ LET sr == readers[r][1]
       IN  IF AtOrPastEnd(sr.offset, StreamSizeOf(sr))
           THEN /\ ret' = Ret("Read", 0, ErrEOF, << >>)
                /\ call' = call
           ELSE /\ call' = Frame("Read", r, sr, plen, sr.offset, plen, 0, << >>)
                /\ ret' = ret
    /\ UNCHANGED <<pureVars, sbVars, aboveMSF, file, msf, openRet, readers>>

ReadLoopStep ==
    /\ call.fn \in {"Read", "ReadAll"}
    /\ ReadLoopCond(CurReader, call.p)
    /\ LET b == ReadLoopBody(file, msf[1], CurReader, call.p)
       IN  CASE b.kind = "panic" ->
                  /\ call' = Panicked
                  /\ UNCHANGED <<ret, readers>>
             [] b.kind = "error" ->
                  /\ FinishRead(CurReader, call.total, b.err, call.data)
                  /\ UNCHANGED readers
             [] OTHER ->
                  /\ call' = [call EXCEPT !.p = @ - b.n, !.total = @ + b.n,
                                          !.data = @ \o b.ext,
                                          !.sr = IF call.fn = "ReadAll" THEN b.sr ELSE @]
                  /\ readers' = IF call.fn = "Read"
                                THEN [readers EXCEPT ![call.rd] = << b.sr >>]
                                ELSE readers
                  /\ ret' = ret
    /\ UNCHANGED <<pureVars, sbVars, aboveMSF, file, msf, openRet>>

ReadLoopExit ==
    /\ call.fn \in {"Read", "ReadAll"}
    /\ ~ReadLoopCond(CurReader, call.p)
    /\ FinishRead(CurReader, call.total, NoError, call.data)
    /\ UNCHANGED <<pureVars, sbVars, aboveMSF, file, msf, openRet, readers>>

\* A variant of Seek with the cursor kept per stream: every reader of the
\* stream moves.
CallSeekMovingStream(r, offset, whence) ==
    /\ call = Idle
    /\ msf # << >>
    /\ readers[r] # << >>
    /\ whence # 0 => StreamSizeOf(readers[r][1]) >= 0
    /\ LET before == readers[r][1]
           after  == SeekReader(msf[1], before, offset, whence)
       IN  /\ readers' = [x \in DOMAIN readers |->
                            IF readers[x] # << >> /\ readers[x][1].stream = before.stream
                            THEN << after >> ELSE readers[x]]
           /\ ret' = Ret("Seek", after.offset, NoError, << >>)
    /\ UNCHANGED <<pureVars, sbVars, aboveMSF, file, msf, openRet, call>>

\* (On a stream of 2^31 bytes or more only Seek from the start is taken:
\* the other seeks lead to offsets without bound.)
CallSeek(r, offset, whence) ==
    /\ call = Idle
    /\ msf # << >>
    /\ readers[r] # << >>
    /\ whence # 0 => StreamSizeOf(readers[r][1]) >= 0
    /\ LET before == readers[r][1]
           after  == SeekReader(msf[1], before, offset, whence)
       IN  /\ readers' = [readers EXCEPT ![r] = << after >>]
           /\ ret' = Ret("Seek", after.offset, NoError, << >>)
    /\ UNCHANGED <<pureVars, sbVars, aboveMSF, file, msf, openRet, call>>

\* Stream.ReadAll on the stream MSF.Stream(index) returns.
CallReadAll(index) ==
    /\ call = Idle
    /\ msf # << >>
    /\ MSFStream(msf[1], index) # << >>
    /\ LET sr  == NewStreamReader(index)
           min == StreamSizeOf(sr)
       IN  IF min = 0
           THEN /\ ret' = ReadAllRet(min, 0, NoError, << >>)
                /\ call' = call
           ELSE /\ call' = Frame("ReadAll", 0, sr, min, 0, index, 0, << >>)
                /\ ret' = ret
    /\ UNCHANGED <<pureVars, sbVars, aboveMSF, file, msf, openRet, readers>>

CallClose ==
    /\ call = Idle
    /\ msf # << >>
    /\ ret' = Ret("Close", 0, IF msf[1].closed THEN ErrClosed ELSE NoError, << >>)
    /\ msf' = << [msf[1] EXCEPT !.closed = TRUE] >>
    /\ UNCHANGED <<pureVars, sbVars, aboveMSF, file, openRet, readers, call>>

(***************************************************************************)
(* The files and calls of the MSF specifications.                          *)
(*                                                                         *)
(* Block 0 holds the super-block, blocks 1 and 2 the free-block maps,      *)
(* block 3 the block map, block 4 the directory; the stream data blocks    *)
(* follow, and the directory hands them out from the last one down, so no  *)
(* stream is contiguous in the file.                                       *)
(***************************************************************************)
NStreams == 2

PoolBlocks == 3

BlockMapBlock == 1 + 2

DirectoryBlock == BlockMapBlock + 1

FirstDataBlock == DirectoryBlock + 1

MSFBlockSizes == {512, 1024}

\* Unused, empty, a block and a byte, two blocks, and 0xFFFFFFFE, for which
\* size + blockSize - 1 wraps around in uint32.
StreamSizeChoices(bs) == {UnusedStreamSize, 0, bs + 1, 2 * bs, UnusedStreamSize - 1}

BlockPool == [i \in 1 .. PoolBlocks |-> FirstDataBlock + PoolBlocks - i]

TotalBlocks == FirstDataBlock + PoolBlocks

MSFHeader(bs, numBlocks, dirBytes) ==
    MSFMagic \o EncodeLE32(bs) \o EncodeLE32(1) \o EncodeLE32(numBlocks)
             \o EncodeLE32(dirBytes) \o EncodeLE32(0) \o EncodeLE32(BlockMapBlock)

SeqsOver(S, n) == [1 .. n -> S]

MSFFile(bs, sizes, length) ==
    LET dir == << NStreams >> \o sizes \o BlockPool
    IN  [exists |-> TRUE,
         hdr    |-> MSFHeader(bs, TotalBlocks, 4 * Len(dir)),
         length |-> length,
         bmap   |-> << DirectoryBlock >>,
         dir    |-> dir]

\* The whole file; the file cut inside the next-to-last data block; the file
\* cut before the first data block; the file cut inside the directory.
FileLengths(bs) ==
    { TotalBlocks * bs,
      (TotalBlocks - 2) * bs + 100,
      FirstDataBlock * bs,
      DirectoryBlock * bs + 8 }

NoFile == [exists |-> FALSE, hdr |-> << >>, length |-> 0, bmap |-> << >>, dir |-> << >>]

NumReaders == 2

ReaderIds == 1 .. NumReaders

NoRet == Ret("none", 0, NoError, << >>)

DMIdle ==
    /\ dmIn = << >>
    /\ dmOut = << >>

NumIdle ==
    /\ numIn = << >>
    /\ numOut = << >>

TyIdle ==
    /\ tyIn = << >>
    /\ tyOut = << >>

SymIdle ==
    /\ symIn = << >>
    /\ symOut = << >>

DBIIdle ==
    /\ dbiIn = << >>
    /\ dbiOut = << >>

PureIdle == DMIdle /\ NumIdle /\ TyIdle /\ SymIdle /\ DBIIdle

SBIdle ==
    /\ sbIn = << >>
    /\ sbOut = << >>

TPIIdle ==
    /\ tpiIn = << >>
    /\ tpiOut = << >>
    /\ tpiGet = << >>

InfoIdle ==
    /\ infoFull = << >>
    /\ infoIn = << >>
    /\ infoOut = << >>

PDBIdle ==
    /\ pdbImg = << >>
    /\ pdb = << >>
    /\ pdbRet = << >>
    /\ pdbFirst = << >>
    /\ pdbWork = << >>

AboveMSFIdle == TPIIdle /\ InfoIdle /\ PDBIdle

InitMSF ==
    /\ PureIdle
    /\ SBIdle
    /\ AboveMSFIdle
    /\ \/ file = NoFile
       \/ \E bs \in MSFBlockSizes :
            \E sizes \in SeqsOver(StreamSizeChoices(bs), NStreams), length \in FileLengths(bs) :
               file = MSFFile(bs, sizes, length)
    /\ msf = << >>
    /\ openRet = << >>
    /\ readers = [r \in ReaderIds |-> << >>]
    /\ call = Idle
    /\ ret = NoRet

\* The block size the calls' arguments are taken around (0: no handle).
BlockSizeOf == IF msf = << >> THEN 0 ELSE msf[1].superBlock.BlockSize

StreamIndexes == -1 .. NStreams

ReadLens == {0, BlockSizeOf - 1, BlockSizeOf + 1, 3 * BlockSizeOf}

\* <<offset, whence>> pairs: io.SeekStart, io.SeekCurrent, io.SeekEnd and a
\* whence that is none of them.
SeekArgs ==
    { <<-1, 0>>, <<1, 0>>, <<BlockSizeOf, 0>>, <<2 * BlockSizeOf + 1, 0>>,
      <<BlockSizeOf, 1>>, <<-3 * BlockSizeOf, 1>>,
      <<-1, 2>>, <<0, 2>>, <<1, 2>>,
      <<5, 3>> }

\* One reader, every call.
NextMSF ==
    \/ CallOpen
    \/ \E index \in StreamIndexes : CallStreamReader(1, index)
    \/ \E plen \in ReadLens : CallRead(1, plen)
    \/ ReadLoopStep
    \/ ReadLoopExit
    \/ \E a \in SeekArgs : CallSeek(1, a[1], a[2])
    \/ \E index \in StreamIndexes : CallReadAll(index)
    \/ CallClose

SpecMSF == InitMSF /\ [][NextMSF]_vars

FairSpecMSF == SpecMSF /\ WF_vars(ReadLoopStep) /\ WF_vars(ReadLoopExit)

(***************************************************************************)
(* What the claims about streams are stated with.                          *)
(***************************************************************************)
RECURSIVE ExtentsLen(_)
\* The number of bytes a list of extents holds.
ExtentsLen(data) ==
    IF data = << >> THEN 0 ELSE data[1][2] + ExtentsLen(Tail(data))

\* The file offset of byte j (from 0) of a stream with block list blocks.
StreamBytePos(blocks, bs, j) == blocks[(j \div bs) + 1] * bs + (j % bs)

RECURSIVE ExtentsMatch(_, _, _, _)
\* The extents are, in order, the stream's bytes from stream offset k on:
\* each extent starts and ends at the file offsets of the stream bytes it
\* stands for and is no longer than a block (so that the bytes between its
\* ends are the stream's too).
ExtentsMatch(blocks, bs, k, data) ==
    \/ data = << >>
    \/ /\ data[1][2] >= 1
       /\ data[1][2] <= bs
       /\ data[1][1] = StreamBytePos(blocks, bs, k)
       /\ data[1][1] + data[1][2] - 1 = StreamBytePos(blocks, bs, k + data[1][2] - 1)
       /\ ExtentsMatch(blocks, bs, k + data[1][2], Tail(data))

\* data is exactly the n bytes of the stream from offset k on.
Delivers(st, bs, k, n, data) ==
    /\ ExtentsLen(data) = n
    /\ ExtentsMatch(st.blocks, bs, k, data)

\* Every block the stream lists lies inside the file.
BlocksInFile(st, bs) ==
    \A i \in 1 .. Len(st.blocks) : (st.blocks[i] + 1) * bs <= file.length

StreamOfReader(r) == msf[1].streams[readers[r][1].stream + 1]

\* The super-block as the file declares it (<<>>: none can be read).
DeclaredSuperBlock == ReadSuperBlock(Take(file.hdr, file.length)).sb

\* C1: for every stream of an opened MSF and every content of the file
\* (a file that ends before a block the stream lists included), ReadAll
\* terminates, and returns exactly size bytes or an error.  A ReadAll in
\* progress whose next step changes nothing repeats that step for ever.
C1_ReadAllTerminates ==
    /\ call.fn = "ReadAll" => ENABLED <<ReadLoopStep \/ ReadLoopExit>>_vars
    /\ (ret.fn = "ReadAll" /\ ret.err = NoError) => ExtentsLen(ret.data) = ret.n

\* The stream the call in progress reads.
StreamOfCall ==
    IF call.fn = "ReadAll" THEN msf[1].streams[call.arg + 1] ELSE StreamOfReader(call.rd)

\* C2: for a stream of size n whose blocks all lie inside the (open) file,
\* a Read of r bytes from offset k returns min(r, n - k) bytes, which are
\* the file bytes at B[j / bs] * bs + j mod bs for j = k, k + 1, ..., and
\* moves the cursor past them; at k = n it returns 0 bytes and io.EOF; and
\* ReadAll, which reads the stream from a fresh reader to its end, returns
\* exactly the n bytes.  In particular no Read ends in a panic.
C2_ReadStep ==
    /\ (call.fn \in {"Read", "ReadAll"}
          /\ BlocksInFile(StreamOfCall, BlockSizeOf) /\ ~msf[1].closed)
         => call' # Panicked
    /\ (call.fn = "Read" /\ call'.fn = "none"
          /\ BlocksInFile(StreamOfReader(call.rd), BlockSizeOf) /\ ~msf[1].closed)
         => LET st == StreamOfReader(call.rd)
                n  == IF st.size < 0 THEN call.arg
                      ELSE Min(call.arg, st.size - call.start)
            IN  /\ ret' = Ret("Read", n, NoError, ret'.data)
                /\ Delivers(st, BlockSizeOf, call.start, n, ret'.data)
                /\ readers'[call.rd][1].offset = call.start + n
    /\ \A plen \in ReadLens :
         (CallRead(1, plen) /\ call'.fn = "none")
           => /\ readers[1][1].offset = StreamOfReader(1).size
              /\ ret' = Ret("Read", 0, ErrEOF, << >>)
    /\ (call.fn = "ReadAll" /\ call'.fn = "none"
          /\ BlocksInFile(msf[1].streams[call.arg + 1], BlockSizeOf) /\ ~msf[1].closed)
         => LET st == msf[1].streams[call.arg + 1]
            IN  /\ ret' = Ret("ReadAll", st.size, NoError, ret'.data)
                /\ Delivers(st, BlockSizeOf, 0, st.size, ret'.data)

C2_StreamBytes == [][C2_ReadStep]_vars

\* C4: opening an MSF whose file is smaller than block_count * block_size,
\* as its super-block declares them, fails, and produces no handle.
C4_OpenRejectsShortFile ==
    (openRet # << >> /\ DeclaredSuperBlock # << >>
       /\ file.length < FileSize(DeclaredSuperBlock[1]))
      => (openRet[1] # NoError /\ msf = << >>)

\* The streams (from 0) whose size in the directory is 0xFFFFFFFF.
UnusedStreams ==
    { i \in 0 .. Len(msf[1].streams) - 1 :
        msf[1].directory.StreamSizes[i + 1] = UnusedStreamSize }

\* The streams Open would have built had the directory given stream i the
\* size 0.
StreamsWithSizeZero(i) ==
    LET sb == msf[1].superBlock
        words == Take(file.dir, sb.NumDirectoryBytes \div 4)
        parsed == parseStreamDirectory([words EXCEPT ![i + 2] = 0], sb.BlockSize)
    IN  IF parsed.err # NoError THEN << >> ELSE buildStreams(parsed.directory[1])

\* C7: a stream whose directory size is 0xFFFFFFFF behaves like a stream of
\* declared size 0: its Size() is 0, it takes no block index from the
\* directory (every stream gets the blocks it would get with a 0 there), a
\* Read on it returns 0 bytes and io.EOF, and ReadAll returns no bytes and
\* no error.
C7_UnusedStep ==
    msf # << >> =>
      \A i \in UnusedStreams :
        /\ msf[1].streams[i + 1].size = 0
        /\ msf[1].streams = StreamsWithSizeZero(i)
        /\ \A plen \in ReadLens :
             (CallRead(1, plen) /\ readers[1][1].stream = i)
               => (ret' = Ret("Read", 0, ErrEOF, << >>) /\ call' = Idle)
        /\ CallReadAll(i) => (ret' = Ret("ReadAll", 0, NoError, << >>) /\ call' = Idle)

C7_UnusedIsEmpty == [][C7_UnusedStep]_vars

\* C7's case: stream 0 is unused, stream 1 is not and has its blocks, and a
\* Read on stream 0 has returned.
C7_Witness ==
    /\ msf # << >>
    /\ 0 \in UnusedStreams
    /\ msf[1].streams[2].size > 0
    /\ readers[1] # << >>
    /\ readers[1][1].stream = 0
    /\ ret = Ret("Read", 0, ErrEOF, << >>)

\* ceil(n / blockSize) of the number a uint32 n stands for (a size of 2^31
\* or more is held as n - 2^32; 2^32 is a multiple of every block size).
CeilDivExact(n, blockSize) ==
    IF n >= 0 THEN (n + blockSize - 1) \div blockSize
    ELSE 4 * (1073741824 \div blockSize) - ((0 - n) \div blockSize)

\* C20: after a successful Open, every stream whose declared size n is not
\* 0xFFFFFFFF (n from 0 to 2^32 - 2) lists exactly ceil(n / block_size)
\* block indices.
C20_BlockCount ==
    msf # << >> =>
      \A i \in 1 .. Len(msf[1].streams) :
        msf[1].directory.StreamSizes[i] # UnusedStreamSize
          => Len(msf[1].streams[i].blocks)
               = CeilDivExact(msf[1].directory.StreamSizes[i], msf[1].superBlock.BlockSize)

\* The cursor of a reader is inside its stream and its block cursor and
\* byte-in-block are the quotient and the remainder of the offset by the
\* block size (a size of 2^31 or more, held negative, is above every offset).
CursorInRange(sr) ==
    /\ 0 <= sr.offset
    /\ StreamSizeOf(sr) >= 0 => sr.offset <= StreamSizeOf(sr)
    /\ sr.blockOffset = sr.offset \div msf[1].superBlock.BlockSize
    /\ sr.posInBlock = sr.offset % msf[1].superBlock.BlockSize

\* C25: after every Read and Seek of a StreamReader its cursor satisfies
\* 0 <= offset <= size, block cursor = offset / block_size and byte-in-block
\* = offset mod block_size; Seek returns the offset it clamped into the
\* stream, and Read never indexes the block list at or beyond its length.
C25_ReaderCursor ==
    /\ call # Panicked
    /\ call = Idle
         => /\ \A r \in DOMAIN readers : readers[r] # << >> => CursorInRange(readers[r][1])
            /\ ret.fn = "Seek"
                 => \E r \in DOMAIN readers :
                      /\ readers[r] # << >>
                      /\ ret.n = readers[r][1].offset
                      /\ ret.err = NoError

(***************************************************************************)
(* Several readers over one MSF: the files are whole, with a first stream  *)
(* of two blocks and the others of one, and each reader takes fewer kinds  *)
(* of calls.                                                               *)
(***************************************************************************)
InitReaders ==
    /\ PureIdle
    /\ SBIdle
    /\ AboveMSFIdle
    /\ \E bs \in MSFBlockSizes :
         file = MSFFile(bs, [i \in 1 .. NStreams |-> IF i = 1 THEN bs + 1 ELSE bs - 1],
                        TotalBlocks * bs)
    /\ msf = << >>
    /\ openRet = << >>
    /\ readers = [r \in ReaderIds |-> << >>]
    /\ call = Idle
    /\ ret = NoRet

ReadersReadLens == {BlockSizeOf - 1, BlockSizeOf + 1}

ReadersSeekArgs == { <<1, 0>> }

NextReaders ==
    \/ CallOpen
    \/ \E r \in ReaderIds, index \in 0 .. NStreams - 1 : CallStreamReader(r, index)
    \/ \E r \in ReaderIds, plen \in ReadersReadLens : CallRead(r, plen)
    \/ ReadLoopStep
    \/ ReadLoopExit
    \/ \E r \in ReaderIds, a \in ReadersSeekArgs : CallSeek(r, a[1], a[2])

SpecReaders == InitReaders /\ [][NextReaders]_vars

\* The step is a call, or a step of a call, on reader a.
StepOn(a) ==
    \/ \E plen \in ReadersReadLens : CallRead(a, plen)
    \/ \E x \in ReadersSeekArgs : CallSeek(a, x[1], x[2])
    \/ (call.fn = "Read" /\ call.rd = a /\ (ReadLoopStep \/ ReadLoopExit))

\* C8: for readers a and b of one MSF, on the same stream or not, and any
\* interleaving of their Read and Seek calls, a call on a leaves b's cursor
\* (offset, block index, position in block) as it was; and what a Read on b
\* returns is the bytes of b's stream from b's own offset on.
C8_ReaderStep ==
    /\ \A a \in ReaderIds, b \in ReaderIds :
         (a # b /\ StepOn(a)) => readers'[b] = readers[b]
    /\ \A b \in ReaderIds :
         (call.fn = "Read" /\ call.rd = b /\ call'.fn = "none")
           => LET st == StreamOfReader(b)
                  n  == Min(call.arg, st.size - call.start)
              IN  /\ ret'.n = n
                  /\ Delivers(st, BlockSizeOf, call.start, n, ret'.data)
    /\ \A b \in ReaderIds, plen \in ReadersReadLens :
         (CallRead(b, plen) /\ call'.fn = "Read") => call'.start = readers[b][1].offset

C8_ReadersIndependent == [][C8_ReaderStep]_vars

\* C8's case: two readers on the same stream at different offsets, the
\* last call a Read that returned bytes.
C8_Witness ==
    /\ readers[1] # << >>
    /\ readers[2] # << >>
    /\ readers[1][1].stream = readers[2][1].stream
    /\ readers[1][1].offset # readers[2][1].offset
    /\ readers[1][1].offset > 0
    /\ readers[2][1].offset > 0
    /\ ret.fn = "Read"
    /\ ret.n > 0

(***************************************************************************)
(* The inputs of ReadSuperBlock.                                           *)
(***************************************************************************)
MaxTrailing == 4

SBMagics ==
    { MSFMagic,
      [MSFMagic EXCEPT ![32] = 1],
      [MSFMagic EXCEPT ![1] = 109] }

SBBlockSizes == ValidBlockSizes \cup {0, 511, 3333, 8192}

SBFpms == 0 .. 3

SBHeader(magic, bs, fpm) ==
    magic \o EncodeLE32(bs) \o EncodeLE32(fpm) \o EncodeLE32(8)
          \o EncodeLE32(64) \o EncodeLE32(0) \o EncodeLE32(7)
          \o [i \in 1 .. MaxTrailing |-> 0]

SBLengths == {0, 31, 32, 35, 36, 40, 55, 56, SuperBlockSize + MaxTrailing}

MSFIdle ==
    /\ file = NoFile
    /\ msf = << >>
    /\ openRet = << >>
    /\ readers = << >>
    /\ call = Idle
    /\ ret = NoRet

InitSB ==
    /\ PureIdle
    /\ MSFIdle
    /\ AboveMSFIdle
    /\ \E magic \in SBMagics, bs \in SBBlockSizes, fpm \in SBFpms, n \in SBLengths :
          sbIn = Take(SBHeader(magic, bs, fpm), n)
    /\ sbOut = << >>

CallReadSuperBlock ==
    /\ sbOut = << >>
    /\ sbOut' = << ReadSuperBlock(sbIn) >>
    /\ UNCHANGED <<pureVars, sbIn, msfVars, aboveMSF>>

NextSB == CallReadSuperBlock

SpecSB == InitSB /\ [][NextSB]_vars

\* The uint32 field at byte offset off of the bytes given to ReadSuperBlock.
SBField(off) == DecodeLE32(SubSeq(sbIn, off + 1, off + 4))

\* C3: ReadSuperBlock returns an error, and no SuperBlock, exactly when
\* fewer than 56 bytes are available, or the first 32 bytes are not the MSF
\* 7.00 magic, or the block size is not one of 512, 1024, 2048, 4096, or the
\* free-block-map index is not 1 or 2; for block size 3333 under a correct
\* magic the error is "invalid block size: 3333"; in every other case it
\* returns the six fields as read.
C3_SuperBlockErrors ==
    sbOut # << >> =>
      LET res     == sbOut[1]
          short   == Len(sbIn) < 56
          magicOK == Len(sbIn) >= 32 /\ SubSeq(sbIn, 1, 32) = MSFMagic
          bad     == \/ short
                     \/ ~magicOK
                     \/ SBField(32) \notin {512, 1024, 2048, 4096}
                     \/ SBField(36) \notin {1, 2}
      IN  /\ (res.err # NoError) <=> bad
          /\ (res.err # NoError) => res.sb = << >>
          /\ (~short /\ magicOK /\ SBField(32) = 3333)
                => res.err = Errorf("invalid block size: %d", 3333)
          /\ ~bad => res.sb = << [Magic |-> SubSeq(sbIn, 1, 32),
                                 BlockSize |-> SBField(32),
                                 FreeBlockMapBlock |-> SBField(36),
                                 NumBlocks |-> SBField(40),
                                 NumDirectoryBytes |-> SBField(44),
                                 Unknown |-> SBField(48),
                                 BlockMapAddr |-> SBField(52)] >>

\* C3's case: block size 3333 under a correct magic was refused.
C3_Witness ==
    /\ sbOut # << >>
    /\ sbOut[1].err = Errorf("invalid block size: %d", 3333)
    /\ sbOut[1].sb = << >>

(***************************************************************************)
(* streams/tpi.go                                                          *)
(***************************************************************************)
TPIStreamVersion50 == 19961031

TPIStreamVersionV70 == 19990903

TPIStreamVersionV80 == 20040203

\* 0x1000
TypeIndexBegin == 4096

\* binary.Size of a TPIHeader: five uint32, two uint16, eight 32-bit fields.
TPIHeaderSize == 5 * 4 + 2 * 2 + 8 * 4

\* binary.LittleEndian.Uint16 of two bytes.
DecodeLE16(b) == b[1] + 256 * b[2]

\* The error of io.ReadFull for n bytes at offset off of an in-memory reader.
BytesReadFullErr(data, off, n) ==
    IF n = 0 \/ off + n <= Len(data) THEN NoError
    ELSE IF off >= Len(data) THEN ErrEOF
    ELSE ErrUnexpectedEOF

\* The fields of the header that the parser uses, from its first 20 bytes.
TPIHeaderOf(data) ==
    [Version         |-> DecodeLE32(SubSeq(data, 1, 4)),
     HeaderSize      |-> DecodeLE32(SubSeq(data, 5, 8)),
     TypeIndexBegin  |-> DecodeLE32(SubSeq(data, 9, 12)),
     TypeIndexEnd    |-> DecodeLE32(SubSeq(data, 13, 16)),
     TypeRecordBytes |-> DecodeLE32(SubSeq(data, 17, 20))]

\* typeMap[index] = &TypeRecords[last]: the map entry is held as the record
\* it points at (records are never written after they are appended).
MapPut(m, key, value) ==
    [k \in DOMAIN m \cup {key} |-> IF k = key THEN value ELSE m[k]]

\* The record loop of ReadTPIStream, from byte offset `offset` of recordData
\* with typeIndex the next index to hand out.
RECURSIVE ParseTypeRecords(_, _, _, _)
ParseTypeRecords(recordData, offset, typeIndex, tpi) ==
    IF ~(offset < Len(recordData) /\ U32Less(typeIndex, tpi.Header.TypeIndexEnd))
    THEN tpi
    ELSE IF offset + 2 > Len(recordData) THEN tpi
    ELSE LET recLen == DecodeLE16(SubSeq(recordData, offset + 1, offset + 2))
             body   == offset + 2
         IN  IF body + recLen > Len(recordData) THEN tpi
             ELSE IF recLen < 2
             THEN ParseTypeRecords(recordData, body, U32Add(typeIndex, 1), tpi)
             ELSE LET record == [Index |-> typeIndex,
                                 Kind  |-> DecodeLE16(SubSeq(recordData, body + 1, body + 2)),
                                 Data  |-> SubSeq(recordData, body + 3, body + recLen)]
                      added  == [tpi EXCEPT !.TypeRecords = Append(@, record),
                                            !.typeMap = MapPut(@, typeIndex, record)]
                  IN  ParseTypeRecords(recordData, body + recLen,
                                       U32Add(typeIndex, 1), added)

\* ReadTPIStream(data): its error and its *TPIStream.
ReadTPIStream(data) ==
    IF Len(data) < TPIHeaderSize
    THEN [err |-> Wrap("failed to read TPI header: %w",
                       BytesReadFullErr(data, 0, TPIHeaderSize)),
          tpi |-> << >>]
    ELSE LET header == TPIHeaderOf(data)
             short  == BytesReadFullErr(data, TPIHeaderSize, header.TypeRecordBytes)
         IN  IF header.Version # TPIStreamVersionV80 /\ header.Version # TPIStreamVersionV70
             THEN [err |-> Errorf("unsupported TPI version: %d", header.Version),
                   tpi |-> << >>]
             ELSE IF short # NoError
             THEN [err |-> Wrap("failed to read type records: %w", short), tpi |-> << >>]
             ELSE [err |-> NoError,
                   tpi |-> << ParseTypeRecords(
                                SubSeq(data, TPIHeaderSize + 1,
                                       TPIHeaderSize + header.TypeRecordBytes),
                                0, header.TypeIndexBegin,
                                [Header |-> header, TypeRecords |-> << >>,
                                 typeMap |-> << >>]) >>]

\* TPIStream.GetType(index): nil or the record.
GetType(t, index) ==
    IF index \in DOMAIN t.typeMap THEN << t.typeMap[index] >> ELSE << >>

CallReadTPIStream ==
    /\ tpiOut = << >>
    /\ tpiOut' = << ReadTPIStream(tpiIn) >>
    /\ UNCHANGED <<pureVars, tpiIn, tpiGet, sbVars, msfVars, infoVars, pdbVars>>

CallGetType(index) ==
    /\ tpiOut # << >>
    /\ tpiOut[1].tpi # << >>
    /\ tpiGet' = << [index |-> index, record |-> GetType(tpiOut[1].tpi[1], index)] >>
    /\ UNCHANGED <<pureVars, tpiIn, tpiOut, sbVars, msfVars, infoVars, pdbVars>>

(***************************************************************************)
(* The TPI streams handed to ReadTPIStream: a header and up to MaxRecords  *)
(* records, among them records whose length field is 0 or 1.                *)
(***************************************************************************)
MaxRecords == 3

\* length and body: an empty record, a one-byte record, LF_MODIFIER (0x1001)
\* without payload, LF_POINTER (0x1002) with two bytes of payload
TPIRecords == { <<0, 0>>, <<1, 0, 0>>, <<2, 0, 1, 16>>, <<4, 0, 2, 16, 7, 7>> }

RECURSIVE RecordBytes(_)
RecordBytes(n) ==
    IF n = 0 THEN { << >> }
    ELSE LET shorter == RecordBytes(n - 1)
         IN  shorter \cup { s \o rec : s \in shorter, rec \in TPIRecords }

TPIVersions == { TPIStreamVersionV80, TPIStreamVersionV70, TPIStreamVersion50 }

\* A TPI stream whose header declares the first type index `begin`.
TPIDataFrom(version, begin, end, recordBytes, records) ==
    EncodeLE32(version) \o EncodeLE32(TPIHeaderSize) \o EncodeLE32(begin)
      \o EncodeLE32(end) \o EncodeLE32(recordBytes)
      \o [i \in 1 .. TPIHeaderSize - 20 |-> 0] \o records

TPIData(version, end, recordBytes, records) ==
    TPIDataFrom(version, TypeIndexBegin, end, recordBytes, records)

TPIIndexes == TypeIndexBegin - 1 .. TypeIndexBegin + MaxRecords

InitTPI ==
    /\ PureIdle
    /\ SBIdle
    /\ MSFIdle
    /\ InfoIdle
    /\ PDBIdle
    /\ \E version \in TPIVersions, records \in RecordBytes(MaxRecords),
          end \in TypeIndexBegin .. TypeIndexBegin + MaxRecords,
          missing \in {0, 1}, headerOnly \in BOOLEAN :
          tpiIn = IF headerOnly
                  THEN Take(TPIData(version, end, Len(records), records), 20 * missing)
                  ELSE TPIData(version, end, Len(records) + missing, records)
    /\ tpiOut = << >>
    /\ tpiGet = << >>

NextTPI ==
    \/ CallReadTPIStream
    \/ \E index \in TPIIndexes : CallGetType(index)

SpecTPI == InitTPI /\ [][NextTPI]_vars

\* C10: every record ReadTPIStream returns has Index = TypeIndexBegin of the
\* header plus its 0-based position in the record list, and GetType(Index)
\* returns that record (same index, kind and payload), whatever the record
\* bytes are, records with a length field of 0 or 1 included.
C10_IndexIsOrdinal ==
    (tpiOut # << >> /\ tpiOut[1].tpi # << >>) =>
      LET t == tpiOut[1].tpi[1]
      IN  \A i \in 1 .. Len(t.TypeRecords) :
             /\ t.TypeRecords[i].Index = U32Add(t.Header.TypeIndexBegin, i - 1)
             /\ GetType(t, t.TypeRecords[i].Index) = << t.TypeRecords[i] >>

(***************************************************************************)
(* streams/pdbinfo.go                                                      *)
(***************************************************************************)
\* binary.Size of a PDBInfoHeader: three uint32 and the 16-byte GUID.
PDBInfoHeaderSize == 3 * 4 + 16

\* Bit b (0 .. 31) of the uint32 w.
U32Bit(w, b) ==
    IF b = 31 THEN w < 0
    ELSE LET low == IF w < 0 THEN (w + MaxInt32) + 1 ELSE w
         IN  (low \div (2 ^ b)) % 2 = 1

isBitSet(words, n) ==
    LET wordIdx == n \div 32
        bitIdx  == n % 32
    IN  IF wordIdx >= Len(words) THEN FALSE
        ELSE U32Bit(words[wordIdx + 1], bitIdx)

\* The bytes before the first NUL, or all of them when there is none.
extractCString(data) ==
    LET nuls == { i \in 1 .. Len(data) : data[i] = 0 }
    IN  IF nuls = {} THEN data
        ELSE SubSeq(data, 1, (CHOOSE i \in nuls : \A j \in nuls : i <= j) - 1)

\* binary.Read of count uint32 at byte offset off: <<>> on a short read.
ReadU32sAt(data, off, count) ==
    IF off + 4 * count <= Len(data)
    THEN << [k \in 1 .. count |-> DecodeLE32(SubSeq(data, off + 4 * k - 3, off + 4 * k))] >>
    ELSE << >>

\* The loop over the hash buckets, from bucket i with the reader at cursor.
RECURSIVE ReadNamedStreams(_, _, _, _, _, _, _)
ReadNamedStreams(data, cursor, i, hashCapacity, presentWords, strBuf, named) ==
    IF ~U32Less(i, hashCapacity) THEN named
    ELSE IF ~isBitSet(presentWords, i)
    THEN ReadNamedStreams(data, cursor, i + 1, hashCapacity, presentWords, strBuf, named)
    ELSE LET keyOffset   == ReadU32At(data, cursor)
             streamIndex == ReadU32At(data, cursor + 4)
         IN  IF keyOffset = << >> \/ streamIndex = << >> THEN named
             ELSE ReadNamedStreams(data, cursor + 8, i + 1, hashCapacity, presentWords,
                    strBuf,
                    IF U32Less(keyOffset[1], Len(strBuf))
                    THEN MapPut(named, extractCString(Drop(strBuf, keyOffset[1])),
                                streamIndex[1])
                    ELSE named)

\* ReadPDBInfo(r), r a reader that delivers the bytes data and then EOF: its
\* error and its *PDBInfo.
ReadPDBInfo(data) ==
    IF Len(data) < PDBInfoHeaderSize
    THEN [err  |-> Wrap("failed to read PDB info header: %w",
                        BytesReadFullErr(data, 0, PDBInfoHeaderSize)),
          info |-> << >>]
    ELSE
      LET info == [Version      |-> DecodeLE32(SubSeq(data, 1, 4)),
                   Signature    |-> DecodeLE32(SubSeq(data, 5, 8)),
                   Age          |-> DecodeLE32(SubSeq(data, 9, 12)),
                   GUID         |-> SubSeq(data, 13, 28),
                   NamedStreams |-> << >>]
          early      == [err |-> NoError, info |-> << info >>]
          strBufSize == ReadU32At(data, PDBInfoHeaderSize)
      IN  IF strBufSize = << >> THEN early
          ELSE
      LET strAt  == PDBInfoHeaderSize + 4
          hashAt == strAt + strBufSize[1]
      IN  IF BytesReadFullErr(data, strAt, strBufSize[1]) # NoError THEN early
          ELSE
      LET strBuf            == SubSeq(data, strAt + 1, hashAt)
          hashSize          == ReadU32At(data, hashAt)
          hashCapacity      == ReadU32At(data, hashAt + 4)
          presentWordsCount == ReadU32At(data, hashAt + 8)
      IN  IF hashSize = << >> \/ hashCapacity = << >> \/ presentWordsCount = << >>
          THEN early
          ELSE
      LET presentWords      == ReadU32sAt(data, hashAt + 12, presentWordsCount[1])
          deletedAt         == hashAt + 12 + 4 * presentWordsCount[1]
          deletedWordsCount == ReadU32At(data, deletedAt)
      IN  IF presentWords = << >> \/ deletedWordsCount = << >> THEN early
          ELSE
      LET deletedWords == ReadU32sAt(data, deletedAt + 4, deletedWordsCount[1])
          pairsAt      == deletedAt + 4 + 4 * deletedWordsCount[1]
      IN  IF deletedWords = << >> THEN early
          ELSE [err  |-> NoError,
                info |-> << [info EXCEPT !.NamedStreams =
                               ReadNamedStreams(data, pairsAt, 0, hashCapacity[1],
                                                presentWords[1], strBuf, << >>)] >>]

CallReadPDBInfo ==
    /\ infoOut = << >>
    /\ infoOut' = << ReadPDBInfo(infoIn) >>
    /\ UNCHANGED <<pureVars, infoIn, infoFull, sbVars, msfVars, tpiVars, pdbVars>>

(***************************************************************************)
(* The PDB info streams: a header, the names of MaxNames streams, a hash   *)
(* table of MaxNames buckets with any of them present, and every way the   *)
(* stream can end early.                                                   *)
(***************************************************************************)
MaxNames == 2

\* Name k is k letters ("a", "bb", ...), NUL-terminated in the buffer.
InfoName(k) == [i \in 1 .. k |-> 96 + k]

RECURSIVE InfoStrBuf(_)
InfoStrBuf(k) == IF k = 0 THEN << >> ELSE InfoStrBuf(k - 1) \o InfoName(k) \o << 0 >>

InfoKeyOffset(k) == Len(InfoStrBuf(k - 1))

\* The key/stream-index pairs of the buckets 1 .. k that present has set.
RECURSIVE InfoPairs(_, _)
InfoPairs(present, k) ==
    IF k = 0 THEN << >>
    ELSE InfoPairs(present, k - 1)
           \o (IF U32Bit(present, k - 1)
               THEN EncodeLE32(InfoKeyOffset(k)) \o EncodeLE32(4 + k)
               ELSE << >>)

InfoStream(present) ==
    EncodeLE32(20000404) \o EncodeLE32(1) \o EncodeLE32(1) \o [i \in 1 .. 16 |-> i]
      \o EncodeLE32(Len(InfoStrBuf(MaxNames))) \o InfoStrBuf(MaxNames)
      \o EncodeLE32(Cardinality({k \in 1 .. MaxNames : U32Bit(present, k - 1)}))
      \o EncodeLE32(MaxNames)
      \o EncodeLE32(1) \o EncodeLE32(present)
      \o EncodeLE32(1) \o EncodeLE32(0)
      \o InfoPairs(present, MaxNames)

InitInfo ==
    /\ PureIdle
    /\ SBIdle
    /\ MSFIdle
    /\ TPIIdle
    /\ PDBIdle
    /\ \E present \in 0 .. 2 ^ MaxNames - 1 :
          /\ infoFull = InfoStream(present)
          /\ \E n \in 0 .. Len(infoFull) : infoIn = Take(infoFull, n)
    /\ infoOut = << >>

NextInfo == CallReadPDBInfo

SpecInfo == InitInfo /\ [][NextInfo]_vars

\* The named-stream map of the *PDBInfo that ReadPDBInfo returned.
NamedStreamsOut == infoOut[1].info[1].NamedStreams

\* C6: when the PDB info stream ends early anywhere after its 28-byte
\* header, ReadPDBInfo returns no error and an empty named-stream map.
C6_ShortInfoIsEmpty ==
    (infoOut # << >> /\ Len(infoIn) >= 28 /\ Len(infoIn) < Len(infoFull))
      => /\ infoOut[1].err = NoError
         /\ infoOut[1].info # << >>
         /\ DOMAIN NamedStreamsOut = {}

(***************************************************************************)
(* pdb/demangle.go                                                         *)
(*                                                                         *)
(* A string is the sequence of its characters; in a result, a string       *)
(* literal of the code is one element.  The demangler's position is        *)
(* 0-based as in the code.  A parse returns [pos, val, panic]: the         *)
(* position it leaves, the text it produced and whether it ended in an     *)
(* out-of-range slice.                                                     *)
(***************************************************************************)
Digits == <<"0", "1", "2", "3", "4", "5", "6", "7", "8", "9">>

DigitChars == { Digits[i] : i \in 1 .. 10 }

\* c - '0' of a digit c.
DigitValue(c) == (CHOOSE i \in 1 .. 10 : Digits[i] = c) - 1

HasPrefix(s, prefix) == Len(s) >= Len(prefix) /\ Take(s, Len(prefix)) = prefix

ImpPrefix == <<"_", "_", "i", "m", "p", "_">>

RECURSIVE JoinParts(_, _)
\* strings.Join(parts, sep), sep a literal.
JoinParts(parts, sep) ==
    IF parts = << >> THEN << >>
    ELSE IF Len(parts) = 1 THEN parts[1]
    ELSE parts[1] \o <<sep>> \o JoinParts(Drop(parts, 1), sep)

ReverseParts(parts) == [i \in 1 .. Len(parts) |-> parts[Len(parts) + 1 - i]]

RECURSIVE SplitAt(_, _)
\* strings.Split(s, "@"): always at least one part.
SplitAt(s, cur) ==
    IF s = << >> THEN <<cur>>
    ELSE IF s[1] = "@" THEN <<cur>> \o SplitAt(Drop(s, 1), << >>)
    ELSE SplitAt(Drop(s, 1), Append(cur, s[1]))

\* strings.LastIndex(s, "@"), 0-based, -1 when there is none.
LastIndexAt(s) ==
    LET at == { i \in 1 .. Len(s) : s[i] = "@" }
    IN  IF at = {} THEN -1 ELSE (CHOOSE i \in at : \A j \in at : j <= i) - 1

\* The part of demangleCDecl after the leading underscore is removed: an
\* @nn suffix is cut off.
StripAtSuffix(result) ==
    LET atIdx  == LastIndexAt(result)
        suffix == Drop(result, atIdx + 1)
    IN  IF atIdx > 0 /\ Len(suffix) > 0 /\ \A i \in 1 .. Len(suffix) : suffix[i] \in DigitChars
        THEN Take(result, atIdx)
        ELSE result

demangleCDecl(name) == StripAtSuffix(Drop(name, 1))

RECURSIVE parseNameEnd(_, _)
\* The position parseName stops at.
parseNameEnd(input, pos) ==
    IF pos < Len(input) /\ input[pos + 1] \notin {"@", "?"}
    THEN parseNameEnd(input, pos + 1)
    ELSE pos

parseName(input, pos) ==
    LET end == parseNameEnd(input, pos)
    IN  [pos |-> end, val |-> SubSeq(input, pos + 1, end)]

\* The operator names of parseSpecialName's switch that read nothing more.
SpecialOperator(c) ==
    CASE c = "2" -> <<"operator new">>    [] c = "3" -> <<"operator delete">>
      [] c = "4" -> <<"operator=">>       [] c = "5" -> <<"operator>>">>
      [] c = "6" -> <<"operator<<">>      [] c = "7" -> <<"operator!">>
      [] c = "8" -> <<"operator==">>      [] c = "9" -> <<"operator!=">>
      [] c = "A" -> <<"operator[]">>      [] c = "B" -> <<"operator (cast)">>
      [] c = "C" -> <<"operator->">>      [] c = "D" -> <<"operator*">>
      [] c = "E" -> <<"operator++">>      [] c = "F" -> <<"operator--">>
      [] c = "G" -> <<"operator-">>       [] c = "H" -> <<"operator+">>
      [] c = "I" -> <<"operator&">>       [] c = "J" -> <<"operator->*">>
      [] c = "K" -> <<"operator/">>       [] c = "L" -> <<"operator%">>
      [] c = "M" -> <<"operator<">>       [] c = "N" -> <<"operator<=">>
      [] c = "O" -> <<"operator>">>       [] c = "P" -> <<"operator>=">>
      [] c = "Q" -> <<"operator,">>       [] c = "R" -> <<"operator()">>
      [] c = "S" -> <<"operator~">>       [] c = "T" -> <<"operator^">>
      [] c = "U" -> <<"operator|">>       [] c = "V" -> <<"operator&&">>
      [] c = "W" -> <<"operator||">>      [] c = "X" -> <<"operator*=">>
      [] c = "Y" -> <<"operator+=">>      [] c = "Z" -> <<"operator-=">>
      [] OTHER   -> << >>

\* The names after "_" in parseSpecialName.
SpecialOperator2(c2) ==
    CASE c2 = "0" -> <<"operator/=">>     [] c2 = "1" -> <<"operator%=">>
      [] c2 = "2" -> <<"operator>>=">>    [] c2 = "3" -> <<"operator<<=">>
      [] c2 = "4" -> <<"operator&=">>     [] c2 = "5" -> <<"operator|=">>
      [] c2 = "6" -> <<"operator^=">>     [] c2 = "E" -> <<"dynamic initializer">>
      [] c2 = "F" -> <<"dynamic atexit destructor">>
      [] OTHER    -> << >>

parseSpecialName(input, pos) ==
    IF pos >= Len(input) THEN [pos |-> pos, val |-> << >>]
    ELSE LET c == input[pos + 1]
         IN  CASE c = "0" -> parseName(input, pos + 1)
               [] c = "1" -> LET n == parseName(input, pos + 1)
                             IN  [pos |-> n.pos, val |-> <<"~">> \o n.val]
               [] c = "_" ->
                    IF pos + 1 >= Len(input) THEN [pos |-> pos + 1, val |-> << >>]
                    ELSE IF input[pos + 2] = "K"
                    THEN LET n == parseName(input, pos + 2)
                         IN  [pos |-> n.pos, val |-> <<"operator \"\" ">> \o n.val]
                    ELSE [pos |-> pos + 2, val |-> SpecialOperator2(input[pos + 2])]
               [] OTHER -> [pos |-> pos + 1, val |-> SpecialOperator(c)]

RECURSIVE parseQualifiedNameLoop(_, _, _, _)
\* The loop of parseQualifiedName: [pos, parts] when it ends.
parseQualifiedNameLoop(input, pos, names, parts) ==
    IF pos >= Len(input) THEN [pos |-> pos, parts |-> parts]
    ELSE LET c == input[pos + 1]
         IN  IF c = "@"
             THEN IF pos + 1 < Len(input) /\ input[pos + 2] = "@"
                  THEN [pos |-> pos + 2, parts |-> parts]
                  ELSE parseQualifiedNameLoop(input, pos + 1, names, parts)
             ELSE IF c \in DigitChars
             THEN parseQualifiedNameLoop(input, pos + 1, names,
                      IF DigitValue(c) < Len(names)
                      THEN Append(parts, names[DigitValue(c) + 1]) ELSE parts)
             ELSE IF c = "?"
             THEN LET after(special) ==
                          parseQualifiedNameLoop(input, special.pos, names,
                              IF special.val # << >> THEN Append(parts, special.val)
                              ELSE parts)
                  IN  after(parseSpecialName(input, pos + 1))
             ELSE LET after(name) ==
                          parseQualifiedNameLoop(input, name.pos,
                              IF name.val # << >> THEN Append(names, name.val) ELSE names,
                              IF name.val # << >> THEN Append(parts, name.val) ELSE parts)
                  IN  after(parseName(input, pos))

parseQualifiedName(input, pos) ==
    LET joined(loop) == [pos |-> loop.pos, val |-> JoinParts(ReverseParts(loop.parts), "::")]
    IN  joined(parseQualifiedNameLoop(input, pos, << >>, << >>))

parseAccessModifier(c) ==
    CASE c \in {"A", "Q"} -> <<"private:">>
      [] c \in {"B", "R"} -> <<"private: static">>
      [] c \in {"C", "I", "S"} -> <<"protected:">>
      [] c \in {"D", "J", "T"} -> <<"protected: static">>
      [] c \in {"E", "K"} -> <<"public:">>
      [] c \in {"F", "L"} -> <<"public: static">>
      [] c = "M" -> <<"private: virtual">>
      [] c = "N" -> <<"protected: virtual">>
      [] c = "O" -> <<"public: virtual">>
      [] OTHER -> << >>

CallingConventionName(c) ==
    CASE c = "A" -> <<"__cdecl">>      [] c = "B" -> <<"__cdecl __export">>
      [] c = "C" -> <<"__pascal">>     [] c = "D" -> <<"__pascal __export">>
      [] c = "E" -> <<"__thiscall">>   [] c = "F" -> <<"__thiscall __export">>
      [] c = "G" -> <<"__stdcall">>    [] c = "H" -> <<"__stdcall __export">>
      [] c = "I" -> <<"__fastcall">>   [] c = "J" -> <<"__fastcall __export">>
      [] c = "M" -> <<"__clrcall">>    [] c = "Q" -> <<"__vectorcall">>
      [] OTHER   -> << >>

parseCallingConvention(input, pos) ==
    IF pos >= Len(input) THEN [pos |-> pos, val |-> << >>]
    ELSE LET c == input[pos + 1]
         IN  IF c \in {"A", "B", "C", "D", "E", "F", "G", "H", "I", "J", "K", "L", "M", "Q"}
             THEN [pos |-> pos + 1, val |-> CallingConventionName(c)]
             ELSE [pos |-> pos, val |-> << >>]

PrimitiveTypeName(c) ==
    CASE c = "X" -> <<"void">>           [] c = "C" -> <<"signed char">>
      [] c = "D" -> <<"char">>           [] c = "E" -> <<"unsigned char">>
      [] c = "F" -> <<"short">>          [] c = "G" -> <<"unsigned short">>
      [] c = "H" -> <<"int">>            [] c = "I" -> <<"unsigned int">>
      [] c = "J" -> <<"long">>           [] c = "K" -> <<"unsigned long">>
      [] c = "M" -> <<"float">>          [] c = "N" -> <<"double">>
      [] c = "O" -> <<"long double">>    [] c = "Z" -> <<"...">>
      [] OTHER   -> << >>

PrimitiveTypeName2(c2) ==
    CASE c2 = "J" -> <<"__int64">>       [] c2 = "K" -> <<"unsigned __int64">>
      [] c2 = "N" -> <<"bool">>          [] c2 = "W" -> <<"wchar_t">>
      [] c2 = "S" -> <<"char16_t">>      [] c2 = "U" -> <<"char32_t">>
      [] OTHER    -> << >>

RECURSIVE parseClassNameEnd(_, _)
\* The position parseClassName's loop stops at.
parseClassNameEnd(input, pos) ==
    IF pos >= Len(input) THEN pos
    ELSE IF input[pos + 1] = "@" /\ pos + 1 < Len(input) /\ input[pos + 2] = "@"
    THEN pos + 2
    ELSE parseClassNameEnd(input, pos + 1)

\* d.input[start : d.pos-2] is out of range when d.pos - 2 < start.
parseClassName(input, start) ==
    LET end == parseClassNameEnd(input, start)
    IN  IF end - 2 < start
        THEN [pos |-> end, val |-> << >>, panic |-> TRUE]
        ELSE [pos |-> end, panic |-> FALSE,
              val |-> JoinParts(ReverseParts(SplitAt(SubSeq(input, start + 1, end - 2), << >>)),
                                "::")]

RECURSIVE parseType(_, _)
parseType(input, pos) ==
    IF pos >= Len(input) THEN [pos |-> pos, val |-> << >>, panic |-> FALSE]
    ELSE LET c == input[pos + 1]
         IN  CASE c \in {"X", "C", "D", "E", "F", "G", "H", "I", "J", "K", "M", "N", "O", "Z"} ->
                    [pos |-> pos + 1, val |-> PrimitiveTypeName(c), panic |-> FALSE]
               [] c = "_" ->
                    IF pos + 1 < Len(input) /\ PrimitiveTypeName2(input[pos + 2]) # << >>
                    THEN [pos |-> pos + 2, val |-> PrimitiveTypeName2(input[pos + 2]),
                          panic |-> FALSE]
                    ELSE IF pos + 1 < Len(input)
                    THEN [pos |-> pos + 1, val |-> << >>, panic |-> FALSE]
                    ELSE [pos |-> pos, val |-> << >>, panic |-> FALSE]
               [] c \in {"P", "Q", "A", "B"} ->
                    LET around(inner) ==
                            [inner EXCEPT !.val =
                                CASE c = "P" -> inner.val \o <<"*">>
                                  [] c = "Q" -> inner.val \o <<"* const">>
                                  [] c = "A" -> inner.val \o <<"&">>
                                  [] OTHER   -> <<"volatile ">> \o inner.val]
                    IN  around(parseType(input, pos + 1))
               [] c \in {"U", "V", "T"} -> parseClassName(input, pos + 1)
               [] c = "@" -> [pos |-> pos + 1, val |-> << >>, panic |-> FALSE]
               [] OTHER -> [pos |-> pos, val |-> << >>, panic |-> FALSE]

MaxArguments == 20

RECURSIVE parseArgumentsLoop(_, _, _)
\* The loop of parseArguments: [pos, args, panic] when it ends.
parseArgumentsLoop(input, pos, args) ==
    IF pos >= Len(input) THEN [pos |-> pos, args |-> args, panic |-> FALSE]
    ELSE IF input[pos + 1] \in {"@", "Z"}
    THEN [pos |-> pos + 1, args |-> args, panic |-> FALSE]
    ELSE LET with(arg) ==
                 IF arg.panic THEN [pos |-> arg.pos, args |-> args, panic |-> TRUE]
                 ELSE IF arg.val = << >> THEN [pos |-> arg.pos, args |-> args, panic |-> FALSE]
                 ELSE IF Len(args) + 1 > MaxArguments
                 THEN [pos |-> arg.pos, args |-> Append(args, arg.val), panic |-> FALSE]
                 ELSE parseArgumentsLoop(input, arg.pos, Append(args, arg.val))
         IN  with(parseType(input, pos))

parseArguments(input, pos) ==
    LET joined(loop) ==
            [pos |-> loop.pos, val |-> JoinParts(loop.args, ", "), panic |-> loop.panic]
    IN  joined(parseArgumentsLoop(input, pos, << >>))

parseFunctionType(input, pos, access) ==
    IF pos >= Len(input) THEN [pos |-> pos, val |-> access, panic |-> FALSE]
    ELSE LET withConv(callingConv, returnType) ==
                 IF callingConv.val = << >> THEN returnType.val
                 ELSE IF returnType.val = << >> THEN callingConv.val
                 ELSE returnType.val \o <<" ">> \o callingConv.val
             result(callingConv, returnType, args) ==
                 IF returnType.panic
                 THEN [pos |-> returnType.pos, val |-> << >>, panic |-> TRUE]
                 ELSE IF args.panic THEN [pos |-> args.pos, val |-> << >>, panic |-> TRUE]
                 ELSE [pos |-> args.pos, panic |-> FALSE,
                       val |-> IF args.val = << >> THEN withConv(callingConv, returnType)
                               ELSE withConv(callingConv, returnType)
                                      \o <<"(">> \o args.val \o <<")">>]
             afterType(callingConv, returnType) ==
                 result(callingConv, returnType, parseArguments(input, returnType.pos))
             afterConv(callingConv) ==
                 afterType(callingConv, parseType(input, callingConv.pos))
         IN  afterConv(parseCallingConvention(input, pos))

parseTypeEncoding(input, pos) ==
    IF pos >= Len(input) THEN [pos |-> pos, val |-> << >>, panic |-> FALSE]
    ELSE LET c == input[pos + 1]
         IN  CASE c = "Y" -> parseFunctionType(input, pos + 1, << >>)
               [] c \in {"Q", "R", "S", "T", "A", "B", "C", "D"} ->
                    parseFunctionType(input, pos + 1, parseAccessModifier(c))
               [] c \in {"0", "1", "2", "3"} -> [pos |-> pos + 1, val |-> << >>, panic |-> FALSE]
               [] OTHER -> [pos |-> pos, val |-> << >>, panic |-> FALSE]

\* A DemangleResult, or the panic the call ended in.
DemangleResult(name, prototype) == [Name |-> name, Prototype |-> prototype, panic |-> FALSE]

DemanglePanic == [Name |-> << >>, Prototype |-> << >>, panic |-> TRUE]

\* msvcDemangler.demangleFull, on a demangler at position pos.
demangleFull(input, pos) ==
    LET result(qualName, prototype) ==
            IF prototype.panic THEN DemanglePanic
            ELSE DemangleResult(qualName.val, prototype.val)
        named(qualName) ==
            IF qualName.val = << >> THEN DemangleResult(<< >>, << >>)
            ELSE IF qualName.pos >= Len(input) THEN DemangleResult(qualName.val, << >>)
            ELSE result(qualName, parseTypeEncoding(input, qualName.pos))
    IN  named(parseQualifiedName(input, pos))

demangleMSVCFull(name) ==
    IF Len(name) < 2 \/ name[1] # "?" THEN DemangleResult(name, << >>)
    ELSE demangleFull(name, 1)

RECURSIVE DemangleFull(_)
\* A variant that cuts the @nn suffix off an undecorated name as well.
DemangleFullStrippingSuffix(name) ==
    IF name = << >> THEN DemangleResult(<< >>, << >>)
    ELSE IF HasPrefix(name, <<"?">>) THEN demangleMSVCFull(name)
    ELSE IF HasPrefix(name, <<"_">>) THEN DemangleResult(demangleCDecl(name), << >>)
    ELSE DemangleResult(StripAtSuffix(name), << >>)

DemangleFull(name) ==
    IF name = << >> THEN DemangleResult(<< >>, << >>)
    ELSE IF HasPrefix(name, <<"?">>) THEN demangleMSVCFull(name)
    ELSE IF HasPrefix(name, <<"_">>) THEN DemangleResult(demangleCDecl(name), << >>)
    ELSE LET import(inner) ==
                 IF inner.panic THEN DemanglePanic
                 ELSE IF HasPrefix(name, ImpPrefix) /\ inner.Name # << >>
                 THEN DemangleResult(inner.Name \o <<" [import]">>, inner.Prototype)
                 ELSE DemangleResult(name, << >>)
         IN  import(IF HasPrefix(name, ImpPrefix) THEN DemangleFull(Drop(name, 6))
                    ELSE DemangleResult(<< >>, << >>))

\* Demangle: the string it returns (a panic of DemangleFull passes through).
Demangle(name) ==
    LET string(result) ==
            IF result.panic THEN DemanglePanic
            ELSE IF result.Name = << >> THEN DemangleResult(name, << >>)
            ELSE DemangleResult(result.Name, << >>)
    IN  string(DemangleFull(name))

CallDemangleFull ==
    /\ dmOut = << >>
    /\ dmOut' = << [fn |-> "DemangleFull", result |-> DemangleFull(dmIn)] >>
    /\ UNCHANGED <<dmIn, numVars, tyVars, symVars, dbiVars, sbVars, msfVars, aboveMSF>>

CallDemangle ==
    /\ dmOut = << >>
    /\ dmOut' = << [fn |-> "Demangle", result |-> Demangle(dmIn)] >>
    /\ UNCHANGED <<dmIn, numVars, tyVars, symVars, dbiVars, sbVars, msfVars, aboveMSF>>

(***************************************************************************)
(* Demangler inputs: every string over DMAlphabet of at most MaxNameLen    *)
(* characters, alone or after "__imp_" or after the start of a decorated   *)
(* C function, "?a@@YA", or of a decorated member function, "?a@@QA".      *)
(***************************************************************************)
MaxNameLen == 3

MemberPrefix == <<"?", "a", "@", "@", "Q", "A">>

DMAlphabet == {"?", "_", "@", "a", "0", "X", "U", "P", "Z", "Y"}

DMPrefixes == { << >>, ImpPrefix, <<"?", "a", "@", "@", "Y", "A">>, MemberPrefix }

DMNames == UNION { [1 .. n -> DMAlphabet] : n \in 0 .. MaxNameLen }

InitDemangle ==
    /\ NumIdle
    /\ TyIdle
    /\ SymIdle
    /\ DBIIdle
    /\ SBIdle
    /\ MSFIdle
    /\ AboveMSFIdle
    /\ \E prefix \in DMPrefixes, name \in DMNames : dmIn = prefix \o name
    /\ dmOut = << >>

NextDemangle ==
    \/ CallDemangleFull
    \/ CallDemangle

SpecDemangle == InitDemangle /\ [][NextDemangle]_vars

\* C17: for every name "__imp_" + X with X not empty, DemangleFull returns
\* the name of DemangleFull(X) followed by " [import]", and the prototype of
\* DemangleFull(X).
C17_ImportThunk ==
    (dmOut # << >> /\ dmOut[1].fn = "DemangleFull"
       /\ HasPrefix(dmIn, ImpPrefix) /\ Len(dmIn) > 6)
      => LET marked(inner) ==
                 [Name |-> inner.Name \o <<" [import]">>, Prototype |-> inner.Prototype]
         IN  [Name |-> dmOut[1].result.Name, Prototype |-> dmOut[1].result.Prototype]
               = marked(DemangleFull(Drop(dmIn, 6)))

\* C18: for every string x that starts with neither "?" nor "_",
\* DemangleFull(x) has the name x and an empty prototype, and Demangle(x)
\* is x.
C18_UndecoratedUnchanged ==
    (dmOut # << >> /\ ~HasPrefix(dmIn, <<"?">>) /\ ~HasPrefix(dmIn, <<"_">>))
      => dmOut[1].result = DemangleResult(dmIn, << >>)

\* C18's case: an undecorated name that ends in an @nn suffix has been
\* demangled.
C18_Witness ==
    /\ dmOut # << >>
    /\ dmOut[1].fn = "DemangleFull"
    /\ dmIn = <<"a", "@", "0">>

\* C19: for every input DemangleFull returns a result and does not panic;
\* when the input ends right after a U, V or T class-name introducer or
\* inside a class name with no "@@", the result holds the name and the part
\* of the prototype read so far.
C19_NoPanic ==
    dmOut # << >> => ~dmOut[1].result.panic

\* C30: for a decorated name whose storage-class letter after the qualified
\* name is a member-function letter and which continues with a calling
\* convention, a return type and arguments, the prototype DemangleFull
\* returns contains the access modifier text chosen for that letter.
C30_AccessInPrototype ==
    /\ dmOut # << >>
    /\ dmOut[1].fn = "DemangleFull"
    /\ HasPrefix(dmIn, MemberPrefix \o <<"X", "X">>)
    /\ ~dmOut[1].result.panic
    => \E i \in 1 .. Len(dmOut[1].result.Prototype) :
         <<dmOut[1].result.Prototype[i]>> = parseAccessModifier("Q")

(***************************************************************************)
(* streams/tpi.go: ParseNumeric, and its copy in codeview/symbols.go       *)
(*                                                                         *)
(* A uint64 is the sequence of its 8 bytes, lowest first.                  *)
(***************************************************************************)
U64Zero == <<0, 0, 0, 0, 0, 0, 0, 0>>

\* uint64(x) of an unsigned x given by its bytes.
ZeroExtend(bytes) == bytes \o [i \in 1 .. 8 - Len(bytes) |-> 0]

\* uint64(x) of a signed x (int8, int16, int32) given by its bytes.
SignExtend(bytes) ==
    bytes \o [i \in 1 .. 8 - Len(bytes) |-> IF bytes[Len(bytes)] >= 128 THEN 255 ELSE 0]

\* binary.LittleEndian.Uint16(data[off:])
Uint16At(data, off) == data[off + 1] + 256 * data[off + 2]

\* A variant that reads the LF_CHAR payload as an unsigned byte.
ParseNumericUnsignedChar(data) ==
    IF Len(data) < 2 THEN [val |-> U64Zero, n |-> 0]
    ELSE LET val == Uint16At(data, 0)
             payload(width) == SubSeq(data, 3, 2 + width)
         IN  IF val < 32768 THEN [val |-> ZeroExtend(Take(data, 2)), n |-> 2]
             ELSE CASE val = 32768 /\ Len(data) >= 3  -> [val |-> ZeroExtend(payload(1)), n |-> 3]
                    [] val = 32769 /\ Len(data) >= 4  -> [val |-> SignExtend(payload(2)), n |-> 4]
                    [] val = 32770 /\ Len(data) >= 4  -> [val |-> ZeroExtend(payload(2)), n |-> 4]
                    [] val = 32771 /\ Len(data) >= 6  -> [val |-> SignExtend(payload(4)), n |-> 6]
                    [] val = 32772 /\ Len(data) >= 6  -> [val |-> ZeroExtend(payload(4)), n |-> 6]
                    [] val = 32777 /\ Len(data) >= 10 -> [val |-> payload(8), n |-> 10]
                    [] val = 32778 /\ Len(data) >= 10 -> [val |-> payload(8), n |-> 10]
                    [] OTHER -> [val |-> U64Zero, n |-> 0]

\* ParseNumeric(data): the value and the number of bytes consumed.
ParseNumeric(data) ==
    IF Len(data) < 2 THEN [val |-> U64Zero, n |-> 0]
    ELSE LET val == Uint16At(data, 0)
             payload(width) == SubSeq(data, 3, 2 + width)
         IN  IF val < 32768 THEN [val |-> ZeroExtend(Take(data, 2)), n |-> 2]
             ELSE CASE val = 32768 /\ Len(data) >= 3  -> [val |-> SignExtend(payload(1)), n |-> 3]
                    [] val = 32769 /\ Len(data) >= 4  -> [val |-> SignExtend(payload(2)), n |-> 4]
                    [] val = 32770 /\ Len(data) >= 4  -> [val |-> ZeroExtend(payload(2)), n |-> 4]
                    [] val = 32771 /\ Len(data) >= 6  -> [val |-> SignExtend(payload(4)), n |-> 6]
                    [] val = 32772 /\ Len(data) >= 6  -> [val |-> ZeroExtend(payload(4)), n |-> 6]
                    [] val = 32777 /\ Len(data) >= 10 -> [val |-> payload(8), n |-> 10]
                    [] val = 32778 /\ Len(data) >= 10 -> [val |-> payload(8), n |-> 10]
                    [] OTHER -> [val |-> U64Zero, n |-> 0]

\* codeview's parseNumeric: the same statements as ParseNumeric.
parseNumeric(data) == ParseNumeric(data)

CallParseNumeric ==
    /\ numOut = << >>
    /\ numOut' = << [fn |-> "streams.ParseNumeric", result |-> ParseNumeric(numIn)] >>
    /\ UNCHANGED <<numIn, dmVars, tyVars, symVars, dbiVars, sbVars, msfVars, aboveMSF>>

CallCodeviewParseNumeric ==
    /\ numOut = << >>
    /\ numOut' = << [fn |-> "codeview.parseNumeric", result |-> parseNumeric(numIn)] >>
    /\ UNCHANGED <<numIn, dmVars, tyVars, symVars, dbiVars, sbVars, msfVars, aboveMSF>>

(***************************************************************************)
(* Numeric leaves: a tag, a payload whose bytes alternate between two      *)
(* values, and up to MaxNumericExtra bytes more than the widest leaf; cut  *)
(* at every length.                                                        *)
(***************************************************************************)
MaxNumericExtra == 1

NumericTags == {0, 1, 255, 256, 32767, 32768, 32769, 32770, 32771, 32772, 32773,
                32776, 32777, 32778, 32779, 65535}

NumericBytes == {0, 1, 127, 128, 255}

NumericLeaf(tag, a, b) ==
    <<tag % 256, tag \div 256>>
      \o [i \in 1 .. 8 + MaxNumericExtra |-> IF i % 2 = 1 THEN a ELSE b]

InitNumeric ==
    /\ DMIdle
    /\ TyIdle
    /\ SymIdle
    /\ DBIIdle
    /\ SBIdle
    /\ MSFIdle
    /\ AboveMSFIdle
    /\ \E tag \in NumericTags, a \in NumericBytes, b \in NumericBytes,
          n \in 0 .. 10 + MaxNumericExtra :
          numIn = Take(NumericLeaf(tag, a, b), n)
    /\ numOut = << >>

NextNumeric ==
    \/ CallParseNumeric
    \/ CallCodeviewParseNumeric

SpecNumeric == InitNumeric /\ [][NextNumeric]_vars

\* The payload widths of the tags the claim names, and the signed ones.
NumericWidth == [t \in {32768, 32769, 32770, 32771, 32772, 32777, 32778} |->
                   CASE t = 32768 -> 1
                     [] t \in {32769, 32770} -> 2
                     [] t \in {32771, 32772} -> 4
                     [] OTHER -> 8]

NumericSigned == {32768, 32769, 32771, 32777}

\* The number a 64-bit value stands for when it lies in -2^15 .. 2^16 - 1.
SmallValue(val) ==
    IF \A i \in 3 .. 8 : val[i] = 0 THEN val[1] + 256 * val[2]
    ELSE (val[1] + 256 * val[2]) - 65536

\* C15: ParseNumeric (and codeview's parseNumeric) returns (the first u16,
\* 2) when that u16 is below 0x8000; for the tags 0x8000, 0x8001, 0x8002,
\* 0x8003, 0x8004, 0x8009 and 0x800a with the whole payload present, the
\* payload read as i8, i16, u16, i32, u32, i64, u64 and 2 + width as the
\* count; (0, 0) for any other tag and for fewer bytes than tag and payload.
\* The count never exceeds the length of the input.
C15_ParseNumeric ==
    numOut # << >> =>
      LET r   == numOut[1].result
          tag == Uint16At(numIn, 0)
      IN  /\ r.n <= Len(numIn)
          /\ IF Len(numIn) < 2 THEN r = [val |-> U64Zero, n |-> 0]
             ELSE IF tag < 32768
             THEN r.n = 2 /\ SmallValue(r.val) = tag
             ELSE IF tag \in DOMAIN NumericWidth /\ Len(numIn) >= 2 + NumericWidth[tag]
             THEN LET w == NumericWidth[tag]
                      top == numIn[2 + w]
                  IN  /\ r.n = 2 + w
                      /\ \A i \in 1 .. w : r.val[i] = numIn[2 + i]
                      /\ \A i \in w + 1 .. 8 :
                           r.val[i] = IF tag \in NumericSigned /\ top >= 128 THEN 255 ELSE 0
                      /\ tag = 32768 => SmallValue(r.val) = IF top >= 128 THEN top - 256 ELSE top
                      /\ tag = 32770 => SmallValue(r.val) = numIn[3] + 256 * numIn[4]
             ELSE r = [val |-> U64Zero, n |-> 0]

\* C15's case: an LF_CHAR leaf with payload 0xFF, and bytes after it, has
\* been parsed as -1 with 3 bytes consumed.
C15_Witness ==
    /\ numOut # << >>
    /\ Len(numIn) > 3
    /\ Uint16At(numIn, 0) = 32768
    /\ numIn[3] = 255
    /\ numOut[1].result = [val |-> <<255, 255, 255, 255, 255, 255, 255, 255>>, n |-> 3]

(***************************************************************************)
(* streams/tpi.go (leaf kinds, built-in types) and codeview/types.go       *)
(*                                                                         *)
(* A rendered string is a sequence of pieces: each string literal of the   *)
(* code is one piece, each byte taken from a record is one piece and a     *)
(* formatted number is one piece.                                          *)
(***************************************************************************)
LF_MODIFIER == 4097

LF_POINTER == 4098

LF_ARRAY == 4099

LF_CLASS == 4100

LF_STRUCTURE == 4101

LF_UNION == 4102

LF_ENUM == 4103

LF_PROCEDURE == 4104

LF_MFUNCTION == 4105

LF_ARGLIST == 4609

LF_FIELDLIST == 4611

LF_BITFIELD == 4613

LF_BCLASS == 5120

LF_ENUMERATE == 5123

LF_INDEX == 5125

LF_MEMBER == 5126

LF_STMEMBER == 5127

LF_METHOD == 5128

LF_NESTTYPE == 5129

LF_VFUNCTAB == 5130

LF_ONEMETHOD == 5132

LF_ARRAY_newformat == 5379

LF_CLASS_newformat == 5380

LF_STRUCTURE_newformat == 5381

LF_UNION_newformat == 5382

LF_ENUM_newformat == 5383

LF_MEMBER_newformat == 5389

LF_STMEMBER_newformat == 5390

LF_METHOD_newformat == 5391

LF_NESTTYPE_newformat == 5392

LF_ONEMETHOD_newformat == 5393

\* The letters of the names in the model's records; any other byte is
\* written as its number.
Chr(b) ==
    CASE b = 97 -> "a" [] b = 98 -> "b" [] b = 99 -> "c" [] b = 115 -> "s"
      [] b = 116 -> "t"
      [] OTHER -> ToString(b)

\* string(bytes)
Str(bytes) == [i \in 1 .. Len(bytes) |-> Chr(bytes[i])]

\* ParseString(data): the string before the first NUL and the bytes consumed.
ParseString(data) ==
    LET name == extractCString(data)
    IN  [val |-> Str(name), n |-> IF Len(name) = Len(data) THEN Len(data) ELSE Len(name) + 1]

\* binary.LittleEndian.Uint32(data[off:])
Uint32At(data, off) == DecodeLE32(SubSeq(data, off + 1, off + 4))

\* (x >> shift) & (2^width - 1) of a uint32, for shift + width <= 31.
U32Field(x, shift, width) ==
    LET low == IF x < 0 THEN (x + MaxInt32) + 1 ELSE x
    IN  (low \div (2 ^ shift)) % (2 ^ width)

\* %d of a uint64: the number when it is below 2^31, else its bytes.
U64Dec(val) ==
    IF val[4] < 128 /\ \A i \in 5 .. 8 : val[i] = 0
    THEN ToString(val[1] + 256 * val[2] + 65536 * val[3] + 16777216 * val[4])
    ELSE ToString(val)

\* fmt.Sprintf("type_0x%x", typeIdx)
TypeHex(typeIdx) == <<"type_0x", ToString(typeIdx)>>

BuiltinBaseName(typeIdx) ==
    LET kind == typeIdx % 256
    IN  CASE kind = 0 -> <<"<no type>">>       [] kind = 3 -> <<"void">>
          [] kind = 16 -> <<"char">>           [] kind = 17 -> <<"short">>
          [] kind = 18 -> <<"long">>           [] kind = 19 -> <<"int64">>
          [] kind = 32 -> <<"unsigned char">>  [] kind = 33 -> <<"unsigned short">>
          [] kind = 34 -> <<"unsigned long">>  [] kind = 35 -> <<"uint64">>
          [] kind = 48 -> <<"bool">>           [] kind = 50 -> <<"BOOL">>
          [] kind = 64 -> <<"float">>          [] kind = 65 -> <<"double">>
          [] kind = 66 -> <<"long double">>    [] kind = 104 -> <<"int8">>
          [] kind = 105 -> <<"uint8">>         [] kind = 112 -> <<"char">>
          [] kind = 113 -> <<"wchar_t">>       [] kind = 114 -> <<"int16">>
          [] kind = 115 -> <<"uint16">>        [] kind = 116 -> <<"int32">>
          [] kind = 117 -> <<"uint32">>        [] kind = 118 -> <<"int64">>
          [] kind = 119 -> <<"uint64">>        [] kind = 8 -> <<"HRESULT">>
          [] OTHER -> <<"builtin_0x", ToString(typeIdx)>>

\* GetBuiltinTypeName(typeIdx)
GetBuiltinTypeName(typeIdx) ==
    IF ~U32Less(typeIdx, TypeIndexBegin) THEN << >>
    ELSE LET mode == (typeIdx \div 256) % 16
         IN  CASE mode = 0 -> BuiltinBaseName(typeIdx)
               [] mode \in {2, 5} -> BuiltinBaseName(typeIdx) \o <<" far*">>
               [] OTHER -> BuiltinBaseName(typeIdx) \o <<"*">>

\* LeafKindName(kind)
LeafKindName(kind) ==
    CASE kind = LF_MODIFIER -> <<"LF_MODIFIER">>
      [] kind = LF_POINTER -> <<"LF_POINTER">>
      [] kind \in {LF_ARRAY, LF_ARRAY_newformat} -> <<"LF_ARRAY">>
      [] kind \in {LF_CLASS, LF_CLASS_newformat} -> <<"LF_CLASS">>
      [] kind \in {LF_STRUCTURE, LF_STRUCTURE_newformat} -> <<"LF_STRUCTURE">>
      [] kind \in {LF_UNION, LF_UNION_newformat} -> <<"LF_UNION">>
      [] kind \in {LF_ENUM, LF_ENUM_newformat} -> <<"LF_ENUM">>
      [] kind = LF_PROCEDURE -> <<"LF_PROCEDURE">>
      [] kind = LF_MFUNCTION -> <<"LF_MFUNCTION">>
      [] kind = LF_ARGLIST -> <<"LF_ARGLIST">>
      [] kind = LF_FIELDLIST -> <<"LF_FIELDLIST">>
      [] kind = LF_BITFIELD -> <<"LF_BITFIELD">>
      [] kind \in {LF_MEMBER, LF_MEMBER_newformat} -> <<"LF_MEMBER">>
      [] kind = LF_ENUMERATE -> <<"LF_ENUMERATE">>
      [] kind \in {LF_NESTTYPE, LF_NESTTYPE_newformat} -> <<"LF_NESTTYPE">>
      [] kind \in {LF_METHOD, LF_METHOD_newformat} -> <<"LF_METHOD">>
      [] kind \in {LF_ONEMETHOD, LF_ONEMETHOD_newformat} -> <<"LF_ONEMETHOD">>
      [] kind = 5633 -> <<"LF_FUNC_ID">>
      [] kind = 5634 -> <<"LF_MFUNC_ID">>
      [] kind = 5635 -> <<"LF_BUILDINFO">>
      [] kind = 5637 -> <<"LF_STRING_ID">>
      [] kind = 5638 -> <<"LF_UDT_SRC_LINE">>
      [] OTHER -> <<"LF_0x", ToString(kind)>>

(***************************************************************************)
(* codeview/types.go: TypeResolver.  r is the resolver's tpi: << >> for    *)
(* nil, else the one stream.  ResolveType calls itself through the         *)
(* resolve* methods without a bound; `path` holds the indexes of the calls *)
(* that are open, and a call on an index that is open never returns (the   *)
(* goroutine stack runs out): its result holds the piece StackOverflow.    *)
(***************************************************************************)
StackOverflow == "<stack overflow>"

Overflows(str) == \E i \in 1 .. Len(str) : str[i] = StackOverflow

RECURSIVE ResolveTypeOn(_, _, _)

\* resolvePointer(data)
resolvePointer(r, data, path) ==
    IF Len(data) < 8 THEN <<"ptr<?>">>
    ELSE LET underlyingType == Uint32At(data, 0)
             attrs          == Uint32At(data, 4)
             ptrKind        == U32Field(attrs, 0, 5)
             ptrMode        == U32Field(attrs, 5, 3)
             isConst        == U32Field(attrs, 10, 1)
             isVolatile     == U32Field(attrs, 11, 1)
             underlyingStr  == ResolveTypeOn(r, underlyingType, path)
             kindSuffix     == CASE ptrKind = 1 -> " far*"
                                 [] ptrKind = 2 -> " huge*"
                                 [] OTHER -> "*"
             suffix         == CASE ptrMode = 1 -> "&"
                                 [] ptrMode = 2 -> "&&"
                                 [] OTHER -> kindSuffix
             result         == underlyingStr \o <<suffix>>
             withConst      == IF isConst # 0 THEN <<"const ">> \o result ELSE result
         IN  IF isVolatile # 0 THEN <<"volatile ">> \o withConst ELSE withConst

\* resolveArray(data)
resolveArray(r, data, path) ==
    IF Len(data) < 8 THEN <<"array<?>">>
    ELSE LET elemStr == ResolveTypeOn(r, Uint32At(data, 0), path)
             size    == ParseNumeric(Drop(data, 8)).val
         IN  IF size # U64Zero THEN elemStr \o <<"[", U64Dec(size), "]">>
             ELSE elemStr \o <<"[]">>

\* resolveProcedure(data)
resolveProcedure(r, data, path) ==
    IF Len(data) < 12 THEN <<"func<?>">>
    ELSE LET retStr == ResolveTypeOn(r, Uint32At(data, 0), path)
             argStr == ResolveTypeOn(r, Uint32At(data, 8), path)
         IN  retStr \o <<" (">> \o argStr \o <<")">>

\* resolveMemberFunction(data)
resolveMemberFunction(r, data, path) ==
    IF Len(data) < 24 THEN <<"mfunc<?>">>
    ELSE LET retStr   == ResolveTypeOn(r, Uint32At(data, 0), path)
             classStr == ResolveTypeOn(r, Uint32At(data, 4), path)
             argStr   == ResolveTypeOn(r, Uint32At(data, 16), path)
         IN  classStr \o <<"::">> \o retStr \o <<" (">> \o argStr \o <<")">>

\* resolveStructure(data, kind)
resolveStructure(data, kind) ==
    IF Len(data) < 18 THEN <<kind, "<?>">>
    ELSE LET nameOffset == 16 + ParseNumeric(Drop(data, 16)).n
             name       == ParseString(Drop(data, nameOffset)).val
         IN  IF nameOffset < Len(data) /\ name # << >> THEN name ELSE <<kind>>

\* resolveEnum(data)
resolveEnum(data) ==
    IF Len(data) < 12 THEN <<"enum<?>">>
    ELSE LET name == ParseString(Drop(data, 12)).val
         IN  IF Len(data) > 12 /\ name # << >> THEN name ELSE <<"enum">>

\* resolveModifier(data)
resolveModifier(r, data, path) ==
    IF Len(data) < 6 THEN <<"mod<?>">>
    ELSE LET modifiers == Uint16At(data, 4)
             modStr    == ResolveTypeOn(r, Uint32At(data, 0), path)
             const     == IF modifiers % 2 # 0 THEN <<"const ">> \o modStr ELSE modStr
             volatile  == IF (modifiers \div 2) % 2 # 0 THEN <<"volatile ">> \o const ELSE const
         IN  IF (modifiers \div 4) % 2 # 0 THEN <<"unaligned ">> \o volatile ELSE volatile

\* The loop of resolveArgList and the join after it: the arguments from the
\* i-th on.
RECURSIVE resolveArgListLoop(_, _, _, _, _)
resolveArgListLoop(r, data, path, count, i) ==
    LET offset == 4 + 4 * i
    IN  IF ~(U32Less(i, count) /\ offset + 4 <= Len(data)) THEN << >>
        ELSE (IF i > 0 THEN <<", ">> ELSE << >>)
               \o ResolveTypeOn(r, Uint32At(data, offset), path)
               \o resolveArgListLoop(r, data, path, count, i + 1)

\* resolveArgList(data)
resolveArgList(r, data, path) ==
    IF Len(data) < 4 THEN << >>
    ELSE IF Uint32At(data, 0) = 0 THEN <<"void">>
    ELSE resolveArgListLoop(r, data, path, Uint32At(data, 0), 0)

\* resolveBitfield(data)
resolveBitfield(r, data, path) ==
    IF Len(data) < 6 THEN <<"bitfield<?>">>
    ELSE ResolveTypeOn(r, Uint32At(data, 0), path)
           \o <<" : ", ToString(data[5]), " (pos ", ToString(data[6]), ")">>

\* resolveTypeRecord(rec)
resolveTypeRecord(r, rec, path) ==
    CASE rec.Kind = LF_POINTER -> resolvePointer(r, rec.Data, path)
      [] rec.Kind \in {LF_ARRAY, LF_ARRAY_newformat} -> resolveArray(r, rec.Data, path)
      [] rec.Kind = LF_PROCEDURE -> resolveProcedure(r, rec.Data, path)
      [] rec.Kind = LF_MFUNCTION -> resolveMemberFunction(r, rec.Data, path)
      [] rec.Kind \in {LF_STRUCTURE, LF_STRUCTURE_newformat} -> resolveStructure(rec.Data, "struct")
      [] rec.Kind \in {LF_CLASS, LF_CLASS_newformat} -> resolveStructure(rec.Data, "class")
      [] rec.Kind \in {LF_UNION, LF_UNION_newformat} -> resolveStructure(rec.Data, "union")
      [] rec.Kind \in {LF_ENUM, LF_ENUM_newformat} -> resolveEnum(rec.Data)
      [] rec.Kind = LF_MODIFIER -> resolveModifier(r, rec.Data, path)
      [] rec.Kind = LF_ARGLIST -> resolveArgList(r, rec.Data, path)
      [] rec.Kind = LF_BITFIELD -> resolveBitfield(r, rec.Data, path)
      [] OTHER -> TypeHex(rec.Index)

\* ResolveType(typeIdx), called while the calls on the indexes of path are open.
ResolveTypeOn(r, typeIdx, path) ==
    IF U32Less(typeIdx, TypeIndexBegin) THEN GetBuiltinTypeName(typeIdx)
    ELSE IF r = << >> THEN TypeHex(typeIdx)
    ELSE IF GetType(r[1], typeIdx) = << >> THEN TypeHex(typeIdx)
    ELSE IF typeIdx \in path THEN <<StackOverflow>>
    ELSE resolveTypeRecord(r, GetType(r[1], typeIdx)[1], path \cup {typeIdx})

\* ResolveType(typeIdx)
ResolveType(r, typeIdx) == ResolveTypeOn(r, typeIdx, {})

\* alignTo(offset, align), for align a power of two or not positive.
alignTo(offset, align) ==
    IF align <= 0 THEN offset
    ELSE ((offset + align - 1) \div align) * align

\* ParsedMember{Name, TypeIdx, TypeName, Offset}
ParsedMember(name, typeIdx, typeName, offset) ==
    [Name |-> name, TypeIdx |-> typeIdx, TypeName |-> typeName, Offset |-> offset]

\* What a call came to: it returned, or it never returns because the
\* recursion has no end (StackOverflow) or because a loop has none.
Returned == "returned"

LoopsForever == "loops forever"

\* The skip of a name that closes a sub-record: `if offset >= len(data)
\* { break }` leaves the switch only, else ParseString moves the cursor.
SkipName(data, offset) ==
    IF offset >= Len(data) THEN offset
    ELSE offset + ParseString(Drop(data, offset)).n

\* members = append(members, contMembers...)
appendContinuation(members, contMembers) == members \o contMembers

RECURSIVE parseFieldListLoop(_, _, _, _, _)

RECURSIVE parseFieldListFrom(_, _, _, _, _, _)

\* One pass through the switch of parseFieldList for the leaf kind read at
\* offset - 2: the members and the cursor after it, and whether the loop goes
\* on ("next") or the function is left.
parseFieldListCase(r, data, offset, leafKind, members, path) ==
    LET return == [members |-> members, offset |-> offset, end |-> Returned]
        next(ms, off) == [members |-> ms, offset |-> off, end |-> "next"]
        emit(m, off) ==
            IF Overflows(m.TypeName)
            THEN [members |-> members, offset |-> off, end |-> StackOverflow]
            ELSE next(Append(members, m), off)
        typeIdx == Uint32At(data, offset + 2)
        numeric == ParseNumeric(Drop(data, offset + 6))
    IN  CASE leafKind \in {LF_MEMBER, LF_MEMBER_newformat} ->
               IF offset + 8 > Len(data) THEN return
               ELSE LET nameAt == offset + 6 + numeric.n
                        name   == ParseString(Drop(data, nameAt))
                    IN  IF nameAt >= Len(data) THEN next(members, nameAt)
                        ELSE emit(ParsedMember(name.val, typeIdx,
                                               ResolveTypeOn(r, typeIdx, {}), numeric.val),
                                  nameAt + name.n)
          [] leafKind \in {LF_STMEMBER, LF_STMEMBER_newformat} ->
               IF offset + 6 > Len(data) THEN return
               ELSE LET nameAt == offset + 6
                        name   == ParseString(Drop(data, nameAt))
                    IN  IF nameAt >= Len(data) THEN next(members, nameAt)
                        ELSE emit(ParsedMember(name.val, typeIdx,
                                               ResolveTypeOn(r, typeIdx, {}) \o <<" (static)">>,
                                               U64Zero),
                                  nameAt + name.n)
          [] leafKind \in {LF_METHOD, LF_METHOD_newformat, LF_ONEMETHOD,
                           LF_ONEMETHOD_newformat, LF_NESTTYPE, LF_NESTTYPE_newformat} ->
               IF offset + 6 > Len(data) THEN return
               ELSE next(members, SkipName(data, offset + 6))
          [] leafKind = LF_BCLASS ->
               IF offset + 8 > Len(data) THEN return
               ELSE emit(ParsedMember(<<"(base)">>, typeIdx,
                                      ResolveTypeOn(r, typeIdx, {}), numeric.val),
                         offset + 6 + numeric.n)
          [] leafKind = LF_VFUNCTAB ->
               IF offset + 6 > Len(data) THEN return
               ELSE next(members, offset + 6)
          [] leafKind = LF_ENUMERATE ->
               IF offset + 2 > Len(data) THEN return
               ELSE next(members,
                         SkipName(data, offset + 2 + ParseNumeric(Drop(data, offset + 2)).n))
          [] leafKind = LF_INDEX ->
               IF offset + 6 > Len(data) THEN return
               ELSE LET contIdx == typeIdx
                        contRec == GetType(r[1], contIdx)
                        cont    == parseFieldListLoop(r, contRec[1].Data, 0, << >>,
                                                      path \cup {contIdx})
                    IN  IF ~(~U32Less(contIdx, TypeIndexBegin) /\ r # << >>)
                        THEN next(members, offset + 6)
                        ELSE IF ~(contRec # << >> /\ contRec[1].Kind = LF_FIELDLIST)
                        THEN next(members, offset + 6)
                        ELSE IF contIdx \in path
                        THEN [members |-> members, offset |-> offset + 6,
                              end |-> StackOverflow]
                        ELSE IF cont.end # Returned
                        THEN [members |-> members, offset |-> offset + 6, end |-> cont.end]
                        ELSE next(appendContinuation(members, cont.members), offset + 6)
          [] OTHER ->
               IF leafKind >= 240 /\ leafKind <= 255
               THEN next(members, Max(offset + (leafKind % 16) - 2, 0))
               ELSE return

\* The end of an iteration of the loops of parseFieldList and
\* parseEnumFieldList that began at the cursor `offset` and went through the
\* switch as `step` says: the function is left, or the cursor is aligned and
\* the loop goes on (`rest` is the loop from there).  An iteration that leaves
\* the cursor and the members as they were is followed by the same iteration
\* for ever.
FieldListIteration(offset, members, step, rest) ==
    IF step.end # "next"
    THEN [members |-> step.members, end |-> step.end, cursors |-> <<offset>>]
    ELSE IF alignTo(step.offset, 4) = offset /\ step.members = members
    THEN [members |-> members, end |-> LoopsForever, cursors |-> <<offset, offset>>]
    ELSE [rest EXCEPT !.cursors = <<offset>> \o @]

\* The cursor and the members an iteration hands to the next one.
NextCursor(step) == alignTo(step.offset, 4)

\* The loop of parseFieldList(data) from the cursor `offset` with `members`
\* collected, while the field lists of `path` are being parsed: the members,
\* how the call ended and the cursor at the start of each iteration.
parseFieldListLoop(r, data, offset, members, path) ==
    IF ~(offset < Len(data))
    THEN [members |-> members, end |-> Returned, cursors |-> << >>]
    ELSE IF offset + 2 > Len(data)
    THEN [members |-> members, end |-> Returned, cursors |-> <<offset>>]
    ELSE parseFieldListFrom(r, data, offset, members, path,
                            parseFieldListCase(r, data, offset + 2, Uint16At(data, offset),
                                               members, path))

\* The rest of the loop after the iteration at `offset` went as `step`.
parseFieldListFrom(r, data, offset, members, path, step) ==
    FieldListIteration(offset, members, step,
                       parseFieldListLoop(r, data, NextCursor(step), step.members, path))

\* parseFieldList(data), for the data of the field list of index fieldListIdx.
parseFieldList(r, fieldListIdx, data) ==
    parseFieldListLoop(r, data, 0, << >>, {fieldListIdx})

\* parsed.Members = fields, when the parse of the field list returned.
WithMembers(parsed, fields) ==
    IF fields.end # Returned THEN [parsed |-> << >>, end |-> fields.end]
    ELSE [parsed |-> << [parsed EXCEPT !.Members = fields.members] >>, end |-> Returned]

\* ParseStructureType(rec): nil (<< >>) or the *ParsedType, when it returns.
ParseStructureType(r, rec) ==
    IF rec = << >> \/ Len(rec[1].Data) < 18 THEN [parsed |-> << >>, end |-> Returned]
    ELSE LET data         == rec[1].Data
             property     == Uint16At(data, 2)
             fieldListIdx == Uint32At(data, 4)
             numeric      == ParseNumeric(Drop(data, 16))
             nameOffset   == 16 + numeric.n
             name         == IF nameOffset < Len(data)
                             THEN ParseString(Drop(data, nameOffset)).val ELSE << >>
             kindName     ==
                 CASE rec[1].Kind \in {LF_STRUCTURE, LF_STRUCTURE_newformat} -> <<"struct">>
                   [] rec[1].Kind \in {LF_CLASS, LF_CLASS_newformat} -> <<"class">>
                   [] rec[1].Kind \in {LF_UNION, LF_UNION_newformat} -> <<"union">>
                   [] OTHER -> << >>
             parsed       == [Index |-> rec[1].Index, Kind |-> rec[1].Kind,
                              KindName |-> kindName, Name |-> name, Size |-> numeric.val,
                              Signature |-> kindName \o <<" ">> \o name,
                              Members |-> << >>]
             fieldRec     == GetType(r[1], fieldListIdx)
         IN  IF (property \div 128) % 2 # 0 THEN [parsed |-> <<parsed>>, end |-> Returned]
             ELSE IF ~(fieldListIdx # 0 /\ ~U32Less(fieldListIdx, TypeIndexBegin) /\ r # << >>)
             THEN [parsed |-> <<parsed>>, end |-> Returned]
             ELSE IF ~(fieldRec # << >> /\ fieldRec[1].Kind = LF_FIELDLIST)
             THEN [parsed |-> <<parsed>>, end |-> Returned]
             ELSE WithMembers(parsed, parseFieldList(r, fieldListIdx, fieldRec[1].Data))

RECURSIVE parseEnumFieldListLoop(_, _, _, _, _)

RECURSIVE parseEnumFieldListFrom(_, _, _, _, _, _)

\* One pass through the if-chain of parseEnumFieldList for the leaf kind read
\* at offset - 2; here a `break` leaves the loop.
parseEnumFieldListCase(r, data, offset, leafKind, members, path) ==
    LET return == [members |-> members, offset |-> offset, end |-> Returned]
        next(ms, off) == [members |-> ms, offset |-> off, end |-> "next"]
    IN  IF leafKind = LF_ENUMERATE
        THEN IF offset + 2 > Len(data) THEN return
             ELSE LET numeric == ParseNumeric(Drop(data, offset + 2))
                      nameAt  == offset + 2 + numeric.n
                      name    == ParseString(Drop(data, nameAt))
                  IN  IF nameAt >= Len(data) THEN return
                      ELSE next(Append(members,
                                       [Name |-> name.val, TypeIdx |-> 0,
                                        TypeName |-> <<U64Dec(numeric.val)>>,
                                        Offset |-> numeric.val]),
                                nameAt + name.n)
        ELSE IF leafKind = LF_INDEX
        THEN IF offset + 6 > Len(data) THEN return
             ELSE LET contIdx == Uint32At(data, offset + 2)
                      contRec == GetType(r[1], contIdx)
                      cont    == parseEnumFieldListLoop(r, contRec[1].Data, 0, << >>,
                                                        path \cup {contIdx})
                  IN  IF ~(~U32Less(contIdx, TypeIndexBegin) /\ r # << >>)
                      THEN next(members, offset + 6)
                      ELSE IF ~(contRec # << >> /\ contRec[1].Kind = LF_FIELDLIST)
                      THEN next(members, offset + 6)
                      ELSE IF contIdx \in path
                      THEN [members |-> members, offset |-> offset + 6,
                            end |-> StackOverflow]
                      ELSE IF cont.end # Returned
                      THEN [members |-> members, offset |-> offset + 6, end |-> cont.end]
                      ELSE next(members \o cont.members, offset + 6)
        ELSE IF leafKind >= 240 /\ leafKind <= 255
        THEN next(members, Max(offset + (leafKind % 16) - 2, 0))
        ELSE return

\* The loop of parseEnumFieldList(data), as parseFieldListLoop.
parseEnumFieldListLoop(r, data, offset, members, path) ==
    IF ~(offset < Len(data))
    THEN [members |-> members, end |-> Returned, cursors |-> << >>]
    ELSE IF offset + 2 > Len(data)
    THEN [members |-> members, end |-> Returned, cursors |-> <<offset>>]
    ELSE parseEnumFieldListFrom(r, data, offset, members, path,
                                parseEnumFieldListCase(r, data, offset + 2,
                                                       Uint16At(data, offset), members, path))

\* The rest of the loop after the iteration at `offset` went as `step`.
parseEnumFieldListFrom(r, data, offset, members, path, step) ==
    FieldListIteration(offset, members, step,
                       parseEnumFieldListLoop(r, data, NextCursor(step), step.members, path))

\* parseEnumFieldList(data), for the data of the field list of index fieldListIdx.
parseEnumFieldList(r, fieldListIdx, data) ==
    parseEnumFieldListLoop(r, data, 0, << >>, {fieldListIdx})

\* ParseEnumType(rec): nil (<< >>) or the *ParsedType, when it returns.
ParseEnumType(r, rec) ==
    IF rec = << >> \/ Len(rec[1].Data) < 12 THEN [parsed |-> << >>, end |-> Returned]
    ELSE LET data           == rec[1].Data
             underlyingType == Uint32At(data, 4)
             fieldListIdx   == Uint32At(data, 8)
             name           == IF Len(data) > 12 THEN ParseString(Drop(data, 12)).val
                               ELSE << >>
             underlying     == ResolveTypeOn(r, underlyingType, {})
             parsed         == [Index |-> rec[1].Index, Kind |-> rec[1].Kind,
                                KindName |-> <<"enum">>, Name |-> name, Size |-> U64Zero,
                                Signature |-> <<"enum ">> \o name \o <<" : ">> \o underlying,
                                Members |-> << >>]
             fieldRec       == GetType(r[1], fieldListIdx)
         IN  IF Overflows(underlying) THEN [parsed |-> << >>, end |-> StackOverflow]
             ELSE IF ~(fieldListIdx # 0 /\ ~U32Less(fieldListIdx, TypeIndexBegin) /\ r # << >>)
             THEN [parsed |-> <<parsed>>, end |-> Returned]
             ELSE IF ~(fieldRec # << >> /\ fieldRec[1].Kind = LF_FIELDLIST)
             THEN [parsed |-> <<parsed>>, end |-> Returned]
             ELSE WithMembers(parsed, parseEnumFieldList(r, fieldListIdx, fieldRec[1].Data))

\* NewTypeResolver(tpi)
NewTypeResolver(tpi) == [tpi |-> tpi]

\* The calls are made on a built-in index and on the indexes that the header
\* of the resolver's stream spans, with the one past them.
IndexAsked(typeIdx) ==
    \/ U32Less(typeIdx, Min(TypeIndexBegin, 256))
    \/ IF tyIn[1].tpi = << >> THEN typeIdx = TypeIndexBegin
       ELSE /\ tyIn[1].tpi[1].Header.TypeIndexBegin <= typeIdx
            /\ typeIdx <= tyIn[1].tpi[1].Header.TypeIndexEnd

CallResolveType(typeIdx) ==
    /\ tyIn # << >>
    /\ tyOut = << >>
    /\ IndexAsked(typeIdx)
    /\ tyOut' = << [fn |-> "ResolveType", arg |-> typeIdx,
                    result |-> ResolveType(tyIn[1].tpi, typeIdx)] >>
    /\ UNCHANGED <<tyIn, dmVars, numVars, symVars, dbiVars, sbVars, msfVars, aboveMSF>>

\* ParseStructureType(r.tpi.GetType(typeIdx)), as Types() and the facade's
\* ResolveType call it; a resolver without a stream has no record to pass.
CallParseStructureType(typeIdx) ==
    /\ tyIn # << >>
    /\ tyOut = << >>
    /\ IndexAsked(typeIdx)
    /\ tyOut' = << [fn |-> "ParseStructureType", arg |-> typeIdx,
                    result |-> ParseStructureType(
                                 tyIn[1].tpi,
                                 IF tyIn[1].tpi = << >> THEN << >>
                                 ELSE GetType(tyIn[1].tpi[1], typeIdx))] >>
    /\ UNCHANGED <<tyIn, dmVars, numVars, symVars, dbiVars, sbVars, msfVars, aboveMSF>>

\* ParseEnumType(r.tpi.GetType(typeIdx))
CallParseEnumType(typeIdx) ==
    /\ tyIn # << >>
    /\ tyOut = << >>
    /\ IndexAsked(typeIdx)
    /\ tyOut' = << [fn |-> "ParseEnumType", arg |-> typeIdx,
                    result |-> ParseEnumType(
                                 tyIn[1].tpi,
                                 IF tyIn[1].tpi = << >> THEN << >>
                                 ELSE GetType(tyIn[1].tpi[1], typeIdx))] >>
    /\ UNCHANGED <<tyIn, dmVars, numVars, symVars, dbiVars, sbVars, msfVars, aboveMSF>>

(***************************************************************************)
(* The type tables the resolver is built on: TPI streams of up to          *)
(* MaxTypeRecords records, read by ReadTPIStream.  The first record is any *)
(* of the kinds the resolver renders and refers to T_INT4, to itself or to *)
(* the record after it; a structure's field list is the second record, of  *)
(* up to MaxFields sub-records, and may continue into the third.  Some     *)
(* field lists hold padding leaves and offsets that ParseNumeric rejects.  *)
(***************************************************************************)
MaxTypeRecords == 3

MaxFields == 3

T_INT4 == 116

LE16(v) == <<v % 256, v \div 256>>

\* A type record of the stream: length, kind, payload.
TypeRecordBytes(kind, data) == LE16(2 + Len(data)) \o LE16(kind) \o data

FirstIndex == TypeIndexBegin

\* attributes of LF_POINTER: kind in bits 0-4, mode in bits 5-7, const in
\* bit 10, volatile in bit 11
PointerAttrs == { kind + 32 * mode + 1024 * cv : kind \in {0, 1, 2, 12},
                                                 mode \in {0, 1, 2, 3},
                                                 cv \in {0, 1, 2, 3} }

PointerRecord(ref, attrs) ==
    TypeRecordBytes(LF_POINTER, EncodeLE32(ref) \o EncodeLE32(attrs))

ScalarRefs == {T_INT4, FirstIndex, FirstIndex + 1}

ScalarRecords ==
    { PointerRecord(T_INT4, attrs) : attrs \in PointerAttrs }
      \cup { PointerRecord(ref, 0) : ref \in ScalarRefs }
      \cup { TypeRecordBytes(LF_POINTER, EncodeLE32(T_INT4)) }
      \cup { TypeRecordBytes(LF_MODIFIER, EncodeLE32(ref) \o LE16(mods)) :
               ref \in ScalarRefs, mods \in {1, 6} }
      \cup { TypeRecordBytes(kind, EncodeLE32(ref) \o EncodeLE32(T_INT4) \o LE16(size)
                                     \o <<0, 241>>) :
               kind \in {LF_ARRAY, LF_ARRAY_newformat}, ref \in ScalarRefs, size \in {0, 8} }
      \cup { TypeRecordBytes(LF_PROCEDURE, EncodeLE32(T_INT4) \o <<0, 0>> \o LE16(1)
                                             \o EncodeLE32(ref)) : ref \in ScalarRefs }
      \cup { TypeRecordBytes(LF_MFUNCTION, EncodeLE32(T_INT4) \o EncodeLE32(ref)
                                             \o EncodeLE32(ref) \o <<0, 0>> \o LE16(1)
                                             \o EncodeLE32(FirstIndex + 1) \o EncodeLE32(0)) :
               ref \in ScalarRefs }
      \cup { TypeRecordBytes(LF_ARGLIST, EncodeLE32(count) \o EncodeLE32(T_INT4)
                                           \o EncodeLE32(ref)) :
               count \in {0, 2}, ref \in ScalarRefs }
      \cup { TypeRecordBytes(LF_BITFIELD, EncodeLE32(ref) \o <<3, 5>>) : ref \in ScalarRefs }
      \cup { TypeRecordBytes(LF_ENUM, LE16(0) \o LE16(0) \o EncodeLE32(T_INT4)
                                        \o EncodeLE32(0) \o name) :
               name \in { << >>, <<116, 0>> } }
      \cup { TypeRecordBytes(LF_VFUNCTAB, << >>) }

\* the records that may follow the first one
TailRecords ==
    { PointerRecord(T_INT4, 0), PointerRecord(FirstIndex, 0),
      TypeRecordBytes(LF_ARGLIST, EncodeLE32(1) \o EncodeLE32(T_INT4)) }

\* sub-records of a field list, each a multiple of four bytes long
MemberField(kind, name, offset) ==
    LE16(kind) \o LE16(3) \o EncodeLE32(T_INT4) \o LE16(offset) \o <<name, 0>>

StaticMemberField(name) ==
    LE16(LF_STMEMBER) \o LE16(3) \o EncodeLE32(T_INT4) \o <<name, 0, 242, 241>>

BaseClassField(offset) ==
    LE16(LF_BCLASS) \o LE16(3) \o EncodeLE32(FirstIndex) \o LE16(offset) \o <<242, 241>>

IndexField(ref) == LE16(LF_INDEX) \o LE16(0) \o EncodeLE32(ref)

MethodField(kind) == LE16(kind) \o LE16(1) \o EncodeLE32(T_INT4) \o <<99, 0, 242, 241>>

Fields ==
    { MemberField(LF_MEMBER, 97, 0), MemberField(LF_MEMBER, 98, 4),
      MemberField(LF_MEMBER_newformat, 99, 8), StaticMemberField(115),
      BaseClassField(0), IndexField(FirstIndex + 2), IndexField(FirstIndex + 1),
      MethodField(LF_ONEMETHOD) }

RECURSIVE Concat(_)
Concat(parts) == IF parts = << >> THEN << >> ELSE Head(parts) \o Concat(Tail(parts))

FieldLists ==
    { TypeRecordBytes(LF_FIELDLIST, Concat(fields)) :
        fields \in UNION { SeqsOver(Fields, n) : n \in 0 .. MaxFields } }

\* the field lists a field list continues into
ContinuationLists ==
    { TypeRecordBytes(LF_FIELDLIST, Concat(fields)) :
        fields \in { <<MemberField(LF_MEMBER, 99, 8)>>,
                     <<StaticMemberField(115), MemberField(LF_MEMBER, 99, 8)>>,
                     <<MemberField(LF_MEMBER, 99, 8), IndexField(FirstIndex + 1)>> } }

\* count, property, field list, derived, vshape, size, name
StructRecord(kind, property, fieldList) ==
    TypeRecordBytes(kind, LE16(2) \o LE16(property) \o EncodeLE32(fieldList)
                            \o EncodeLE32(0) \o EncodeLE32(0) \o LE16(12) \o <<116, 0>>)

StructRecords ==
    { StructRecord(LF_STRUCTURE, 0, FirstIndex + 1),
      StructRecord(LF_CLASS_newformat, 0, FirstIndex + 1),
      StructRecord(LF_UNION, 0, FirstIndex + 1),
      StructRecord(LF_STRUCTURE, 128, FirstIndex + 1),
      StructRecord(LF_STRUCTURE_newformat, 0, 0) }

\* a padding leaf 0xF0 + n: n bytes of padding, the leaf's own byte included
PaddingField(n) == <<240 + n, 0, 0, 0>>

\* 0x8004, the numeric tag that is followed by four bytes
LF_ULONG == 32772

\* a member whose offset is a numeric leaf of the tag 0x8005, which
\* ParseNumeric has no case for
UnsupportedOffsetField(name) ==
    LE16(LF_MEMBER) \o LE16(3) \o EncodeLE32(T_INT4) \o LE16(LF_ULONG + 1) \o <<name, 0>>

\* a base class whose offset is a numeric leaf cut after its tag
TruncatedOffsetField ==
    LE16(LF_BCLASS) \o LE16(3) \o EncodeLE32(FirstIndex) \o LE16(LF_ULONG)

MalformedFields ==
    { MemberField(LF_MEMBER, 97, 0), MemberField(LF_MEMBER, 98, 4), PaddingField(0),
      PaddingField(4), UnsupportedOffsetField(99), TruncatedOffsetField }

\* field lists with padding leaves and with offsets that do not parse
MalformedFieldLists ==
    { TypeRecordBytes(LF_FIELDLIST, Concat(fields)) :
        fields \in UNION { SeqsOver(MalformedFields, n) : n \in 1 .. MaxFields } }

EnumerateField(name, value) ==
    LE16(LF_ENUMERATE) \o LE16(3) \o LE16(value) \o <<name, 0>>

EnumFieldLists ==
    { TypeRecordBytes(LF_FIELDLIST, Concat(fields)) :
        fields \in UNION { SeqsOver({ EnumerateField(97, 0), EnumerateField(98, 1),
                                      IndexField(FirstIndex + 1) }, n) :
                             n \in 0 .. MaxFields } }

MalformedEnumFieldLists ==
    { TypeRecordBytes(LF_FIELDLIST, Concat(fields)) :
        fields \in UNION { SeqsOver({ EnumerateField(97, 0), PaddingField(0),
                                      PaddingField(4) }, n) : n \in 1 .. MaxFields } }

\* count, property, underlying type, field list, name
EnumRecords ==
    { TypeRecordBytes(kind, LE16(2) \o LE16(0) \o EncodeLE32(T_INT4)
                              \o EncodeLE32(FirstIndex + 1) \o <<116, 0>>) :
        kind \in {LF_ENUM, LF_ENUM_newformat} }

TypeTables ==
    { <<first>> \o tail :
        first \in ScalarRecords,
        tail \in UNION { SeqsOver(TailRecords, n) : n \in 0 .. MaxTypeRecords - 1 } }
      \cup { <<struct, fields>> \o cont :
               struct \in StructRecords, fields \in FieldLists,
               cont \in { << >> } \cup { <<c>> : c \in ContinuationLists } }
      \cup { <<enum, fields>> : enum \in EnumRecords, fields \in EnumFieldLists }
      \cup { <<StructRecord(LF_STRUCTURE, 0, FirstIndex + 1), fields>> :
               fields \in MalformedFieldLists }
      \cup { <<enum, fields>> : enum \in EnumRecords, fields \in MalformedEnumFieldLists }

TypeStream(records) ==
    TPIData(TPIStreamVersionV80, TypeIndexBegin + Len(records),
            Len(Concat(records)), Concat(records))

\* Type tables whose header declares a first index other than 0x1000: a
\* pointer to T_INT4, and a structure whose field list is the record after it
\* and continues into the third.
OtherBases == {2048, 4097}

RebasedTables(base) ==
    { <<PointerRecord(T_INT4, 0)>>,
      <<StructRecord(LF_STRUCTURE, 0, base + 1),
        TypeRecordBytes(LF_FIELDLIST, MemberField(LF_MEMBER, 97, 0))>>,
      <<StructRecord(LF_STRUCTURE, 0, base + 1),
        TypeRecordBytes(LF_FIELDLIST, MemberField(LF_MEMBER, 97, 0) \o IndexField(base + 2)),
        TypeRecordBytes(LF_FIELDLIST, MemberField(LF_MEMBER, 98, 4))>> }

RebasedTypeStream(base, records) ==
    TPIDataFrom(TPIStreamVersionV80, base, base + Len(records),
                Len(Concat(records)), Concat(records))

\* the indexes asked for: a built-in type, the records and one past them
TypeIndexes ==
    {T_INT4} \cup UNION { base .. base + MaxTypeRecords : base \in {FirstIndex} \cup OtherBases }

InitTypes ==
    /\ DMIdle
    /\ NumIdle
    /\ SymIdle
    /\ DBIIdle
    /\ SBIdle
    /\ MSFIdle
    /\ AboveMSFIdle
    /\ tyOut = << >>
    /\ \/ tyIn = << NewTypeResolver(<< >>) >>
       \/ \E records \in TypeTables :
            tyIn = << NewTypeResolver(ReadTPIStream(TypeStream(records)).tpi) >>
       \/ \E base \in OtherBases : \E records \in RebasedTables(base) :
            tyIn = << NewTypeResolver(
                        ReadTPIStream(RebasedTypeStream(base, records)).tpi) >>

NextTypes ==
    \/ \E typeIdx \in TypeIndexes : CallResolveType(typeIdx)
    \/ \E typeIdx \in TypeIndexes : CallParseStructureType(typeIdx)
    \/ \E typeIdx \in TypeIndexes : CallParseEnumType(typeIdx)

SpecTypes == InitTypes /\ [][NextTypes]_vars

\* The record of the index a call was made on, << >> when there is none.
RecordAsked ==
    IF tyIn = << >> \/ tyOut = << >> THEN << >>
    ELSE IF tyIn[1].tpi = << >> THEN << >>
    ELSE GetType(tyIn[1].tpi[1], tyOut[1].arg)

\* C16: an LF_POINTER record with at least 8 payload bytes renders as the
\* underlying type followed by "&" when the mode is 1, "&&" when it is 2 and
\* "*" for every other mode, whatever the pointer kind, with "const " and then
\* "volatile " put in front when bits 10 and 11 are set; a pointer to T_INT4
\* with no attribute renders "int32*".
C16_PointerRendering ==
    (/\ tyOut # << >>
     /\ tyOut[1].fn = "ResolveType"
     /\ RecordAsked # << >>
     /\ RecordAsked[1].Kind = LF_POINTER
     /\ Len(RecordAsked[1].Data) >= 8
     /\ ~Overflows(tyOut[1].result))
    => LET data   == RecordAsked[1].Data
           attrs  == Uint32At(data, 4)
           mode   == U32Field(attrs, 5, 3)
           inner  == ResolveType(tyIn[1].tpi, Uint32At(data, 0))
           suffix == CASE mode = 1 -> "&" [] mode = 2 -> "&&" [] OTHER -> "*"
           const  == IF U32Field(attrs, 10, 1) = 1 THEN <<"const ">> ELSE << >>
           volatile == IF U32Field(attrs, 11, 1) = 1 THEN <<"volatile ">> ELSE << >>
       IN  /\ tyOut[1].result = volatile \o const \o inner \o <<suffix>>
           /\ (Uint32At(data, 0) = T_INT4 /\ attrs = 0)
                => tyOut[1].result = <<"int32", "*">>

\* The call made was ParseStructureType on a structure, class or union record
\* whose field list was parsed to the end.
ParsedWithFields ==
    /\ tyOut # << >>
    /\ tyOut[1].fn = "ParseStructureType"
    /\ tyOut[1].result.end = Returned
    /\ tyOut[1].result.parsed # << >>
    /\ (Uint16At(RecordAsked[1].Data, 2) \div 128) % 2 = 0
    /\ LET fieldRec == GetType(tyIn[1].tpi[1], Uint32At(RecordAsked[1].Data, 4))
       IN  fieldRec # << >> /\ fieldRec[1].Kind = LF_FIELDLIST

\* The index and the payload of the field list of the structure asked for.
FieldListIdxAsked == Uint32At(RecordAsked[1].Data, 4)

FieldListAsked == GetType(tyIn[1].tpi[1], FieldListIdxAsked)[1].Data

\* The cursors at which the loop over the field list asked for read LF_INDEX
\* with a whole sub-record behind it.
IndexCursors ==
    LET walk == parseFieldList(tyIn[1].tpi, FieldListIdxAsked, FieldListAsked)
    IN  { walk.cursors[i] : i \in { j \in 1 .. Len(walk.cursors) :
            /\ walk.cursors[j] + 8 <= Len(FieldListAsked)
            /\ Uint16At(FieldListAsked, walk.cursors[j]) = LF_INDEX } }

\* Name and offset of each member, in list order.
NamesAndOffsets(members) ==
    [i \in 1 .. Len(members) |-> <<members[i].Name, members[i].Offset>>]

\* C13: the members of an LF_INDEX continuation stand where the LF_INDEX
\* stands, in their own order, after the members of the sub-records before it
\* and before the members of the sub-records after it; the field list
\* [a@0, b@4, LF_INDEX -> FL2] with FL2 = [c@8] gives [a@0, b@4, c@8].
C13_ContinuationSpliced ==
    ParsedWithFields
    => LET r       == tyIn[1].tpi
           members == tyOut[1].result.parsed[1].Members
           before(k) == parseFieldList(r, FieldListIdxAsked, Take(FieldListAsked, k)).members
           after(k)  == parseFieldList(r, FieldListIdxAsked, Drop(FieldListAsked, k + 8)).members
           contIdx(k) == Uint32At(FieldListAsked, k + 4)
           contRec(k) == GetType(r[1], contIdx(k))
           cont(k) ==
               IF contRec(k) # << >> /\ contRec(k)[1].Kind = LF_FIELDLIST
               THEN parseFieldListLoop(r, contRec(k)[1].Data, 0, << >>,
                                       {FieldListIdxAsked, contIdx(k)}).members
               ELSE << >>
       IN  /\ \A k \in IndexCursors : members = before(k) \o cont(k) \o after(k)
           /\ (/\ FieldListAsked = MemberField(LF_MEMBER, 97, 0) \o MemberField(LF_MEMBER, 98, 4)
                                     \o IndexField(FieldListIdxAsked + 1)
               /\ contRec(24) # << >>
               /\ contRec(24)[1].Kind = LF_FIELDLIST
               /\ contRec(24)[1].Data = MemberField(LF_MEMBER, 99, 8))
              => NamesAndOffsets(members)
                   = << <<<<"a">>, ZeroExtend(<<0>>)>>, <<<<"b">>, ZeroExtend(<<4>>)>>,
                        <<<<"c">>, ZeroExtend(<<8>>)>> >>

\* a <= b for two uint64 given by their bytes, lowest first.
U64LessEq(a, b) ==
    \/ a = b
    \/ \E k \in 1 .. 8 : a[k] < b[k] /\ \A j \in k + 1 .. 8 : a[j] = b[j]

NonDecreasing(offsets) ==
    \A i \in 1 .. Len(offsets) - 1 : U64LessEq(offsets[i], offsets[i + 1])

\* Whether a member was emitted by the LF_STMEMBER case.
IsStaticMember(m) ==
    Len(m.TypeName) > 0 /\ m.TypeName[Len(m.TypeName)] = " (static)"

\* C14: the offsets of the members of a structure or class returned by
\* ParseStructureType, in list order, never decrease, static members and base
\* classes included, when the offsets stored in the field list (those of the
\* members that are not static) are in ascending order.
C14_OffsetsMonotone ==
    (/\ ParsedWithFields
     /\ tyOut[1].result.parsed[1].KindName \in { <<"struct">>, <<"class">> })
    => LET members  == tyOut[1].result.parsed[1].Members
           offsets  == [i \in 1 .. Len(members) |-> members[i].Offset]
           stored   == SelectSeq(members, LAMBDA m : ~IsStaticMember(m))
       IN  NonDecreasing([i \in 1 .. Len(stored) |-> stored[i].Offset])
             => NonDecreasing(offsets)

\* C21: ResolveType on the resolver returns for every type table, also for
\* a table whose records refer to themselves or to each other in a cycle (an
\* LF_POINTER, LF_MODIFIER or LF_ARRAY whose underlying index is its own).
C21_ResolveTypeTerminates ==
    (tyOut # << >> /\ tyOut[1].fn = "ResolveType") => ~Overflows(tyOut[1].result)

\* The walk of the field list of the structure or enum asked for, as the call
\* made it.
FieldListWalk ==
    IF tyOut[1].fn = "ParseEnumType"
    THEN parseEnumFieldList(tyIn[1].tpi, Uint32At(RecordAsked[1].Data, 8),
                            GetType(tyIn[1].tpi[1], Uint32At(RecordAsked[1].Data, 8))[1].Data)
    ELSE parseFieldList(tyIn[1].tpi, FieldListIdxAsked, FieldListAsked)

\* The call made was ParseStructureType or ParseEnumType on a record whose
\* field list it went into.
FieldListEntered ==
    /\ tyOut # << >>
    /\ RecordAsked # << >>
    /\ \/ /\ tyOut[1].fn = "ParseStructureType"
          /\ Len(RecordAsked[1].Data) >= 18
          /\ (Uint16At(RecordAsked[1].Data, 2) \div 128) % 2 = 0
          /\ ~U32Less(FieldListIdxAsked, TypeIndexBegin)
          /\ GetType(tyIn[1].tpi[1], FieldListIdxAsked) # << >>
          /\ GetType(tyIn[1].tpi[1], FieldListIdxAsked)[1].Kind = LF_FIELDLIST
       \/ /\ tyOut[1].fn = "ParseEnumType"
          /\ Len(RecordAsked[1].Data) >= 12
          /\ ~U32Less(Uint32At(RecordAsked[1].Data, 8), TypeIndexBegin)
          /\ GetType(tyIn[1].tpi[1], Uint32At(RecordAsked[1].Data, 8)) # << >>
          /\ GetType(tyIn[1].tpi[1], Uint32At(RecordAsked[1].Data, 8))[1].Kind = LF_FIELDLIST

\* C22: while the members of one structure or enum are parsed, LF_INDEX
\* continuation never enters a field list that is already being parsed, so
\* the parse returns also when a field list continues into itself or into a
\* cycle of field lists.
C22_ContinuationTerminates ==
    FieldListEntered => tyOut[1].result.end # StackOverflow

\* The payload of the field list that FieldListWalk walks.
FieldListWalked ==
    IF tyOut[1].fn = "ParseEnumType"
    THEN GetType(tyIn[1].tpi[1], Uint32At(RecordAsked[1].Data, 8))[1].Data
    ELSE FieldListAsked

\* No iteration of the walk read an LF_INDEX leaf.
WithoutContinuation(walk, data) ==
    \A i \in 1 .. Len(walk.cursors) :
        ~(walk.cursors[i] + 2 <= Len(data) /\ Uint16At(data, walk.cursors[i]) = LF_INDEX)

\* Each iteration of the walk began further on than the one before it, and
\* the loop was left.
CursorAdvances(walk, data) ==
    /\ walk.end # LoopsForever
    /\ \A i \in 1 .. Len(walk.cursors) - 1 : walk.cursors[i] < walk.cursors[i + 1]
    /\ Len(walk.cursors) <= Len(data) \div 4 + 1

\* C23: in parseFieldList and parseEnumFieldList, over a field list without
\* continuation, each loop iteration begins at a cursor strictly greater than
\* the one before it, so the loop ends after at most len(data)/4 + 1
\* iterations; a padding leaf 0xF0..0xFF, 0xF0 included, advances the cursor.
C23_CursorAdvances ==
    LET holds(walk, data) == WithoutContinuation(walk, data) => CursorAdvances(walk, data)
    IN  FieldListEntered => holds(FieldListWalk, FieldListWalked)

\* The cursors of the walk at which an LF_MEMBER or LF_BCLASS sub-record
\* begins whose numeric leaf ParseNumeric consumes no byte of.
RejectedOffsetCursors(walk, data) ==
    { walk.cursors[i] : i \in { j \in 1 .. Len(walk.cursors) :
        /\ walk.cursors[j] + 10 <= Len(data)
        /\ Uint16At(data, walk.cursors[j]) \in {LF_MEMBER, LF_MEMBER_newformat, LF_BCLASS}
        /\ ParseNumeric(Drop(data, walk.cursors[j] + 8)).n = 0 } }

\* The least element of a non-empty set of numbers.
Least(S) == CHOOSE x \in S : \A y \in S : x <= y

\* C24: when the numeric leaf of an LF_MEMBER or LF_BCLASS sub-record has an
\* unsupported tag or is truncated (ParseNumeric consumes 0 bytes), the
\* sub-record is abandoned: no member is emitted for it and the members
\* emitted before it are what ParseStructureType returns.
C24_RejectedOffsetAbandons ==
    LET abandoned(members, rejected) ==
            rejected # {}
              => members = parseFieldList(tyIn[1].tpi, FieldListIdxAsked,
                                          Take(FieldListAsked, Least(rejected))).members
    IN  ParsedWithFields
          => abandoned(tyOut[1].result.parsed[1].Members,
                       RejectedOffsetCursors(FieldListWalk, FieldListAsked))

\* C26: for a TPI stream whose header declares type_index_begin = B, every
\* index from B on that has a parsed record is rendered from that record by
\* ResolveType (a pointer to T_INT4 as "int32*") and followed as the index of
\* a structure's field list, also when B differs from 0x1000.
C26_BaseFromHeader ==
    LET r == tyIn[1].tpi
    IN  /\ (/\ tyOut # << >>
            /\ tyOut[1].fn = "ResolveType"
            /\ RecordAsked # << >>)
           => /\ tyOut[1].result = resolveTypeRecord(r, RecordAsked[1], {tyOut[1].arg})
              /\ (RecordAsked[1].Kind = LF_POINTER
                    /\ RecordAsked[1].Data = EncodeLE32(T_INT4) \o EncodeLE32(0))
                   => tyOut[1].result = <<"int32", "*">>
        /\ (/\ tyOut # << >>
            /\ tyOut[1].fn = "ParseStructureType"
            /\ tyOut[1].result.end = Returned
            /\ RecordAsked # << >>
            /\ Len(RecordAsked[1].Data) >= 18
            /\ (Uint16At(RecordAsked[1].Data, 2) \div 128) % 2 = 0
            /\ GetType(r[1], FieldListIdxAsked) # << >>
            /\ GetType(r[1], FieldListIdxAsked)[1].Kind = LF_FIELDLIST)
           => /\ tyOut[1].result.parsed # << >>
              /\ tyOut[1].result.parsed[1].Members
                   = parseFieldList(r, FieldListIdxAsked, FieldListAsked).members

(***************************************************************************)
(* codeview/symbols.go: ParseSymbols and ParseProcSym, and the loop of     *)
(* PDB.Functions that hands the procedure records of a symbol stream to    *)
(* ParseProcSym.  A call ends as "ok", as "error" (it returned an error)   *)
(* or as "panic" (a slice or an index out of range).                       *)
(***************************************************************************)
S_PUB32 == 4366

S_LPROC32 == 4367

S_GPROC32 == 4368

\* IsProcSymbol(kind), for the kinds the symbol streams hold.
IsProcKind(kind) == kind \in {S_GPROC32, S_LPROC32}

\* IsGlobalSymbol(kind), for the kinds the symbol streams hold.
IsGlobalKind(kind) == kind \in {S_GPROC32, S_PUB32}

\* SymbolRecord{Kind, Data}
SymbolRecord(kind, data) == [Kind |-> kind, Data |-> data]

\* A variant that starts at offset 0 whatever the first four bytes are.
ParseSymbolsStart0(data) == 0

\* The offset the loop of ParseSymbols starts at: behind the signature when
\* the first uint32 is 4 (CV_SIGNATURE_C13).
ParseSymbolsStart(data) ==
    IF Len(data) >= 4 /\ Uint32At(data, 0) = 4 THEN 4 ELSE 0

\* The loop of ParseSymbols from `offset` with `symbols` collected.
RECURSIVE ParseSymbolsLoop(_, _, _)
ParseSymbolsLoop(data, offset, symbols) ==
    IF ~(offset + 4 <= Len(data)) THEN symbols
    ELSE LET recLen == Uint16At(data, offset)
             body   == offset + 2
         IN  IF recLen < 2 \/ body + recLen > Len(data) THEN symbols
             ELSE ParseSymbolsLoop(data, body + recLen,
                                   Append(symbols,
                                          SymbolRecord(Uint16At(data, body),
                                                       SubSeq(data, body + 3, body + recLen))))

\* ParseSymbols(data): the records (its error is always nil).
ParseSymbols(data) == ParseSymbolsLoop(data, ParseSymbolsStart(data), << >>)

SymPanic == [kind |-> "panic", err |-> NoError, proc |-> << >>]

\* ParseProcSym(data): binary.LittleEndian.Uint16(data[32:]) needs 34 bytes
\* and data[34] needs 35.
ParseProcSym(data) ==
    IF Len(data) < 32
    THEN [kind |-> "error",
          err  |-> Errorf("proc symbol data too small: %d bytes", Len(data)),
          proc |-> << >>]
    ELSE IF Len(data) < 34 THEN SymPanic
    ELSE IF Len(data) < 35 THEN SymPanic
    ELSE [kind |-> "ok", err |-> NoError,
          proc |-> << [Parent    |-> Uint32At(data, 0),
                       End       |-> Uint32At(data, 4),
                       Next      |-> Uint32At(data, 8),
                       Length    |-> Uint32At(data, 12),
                       DbgStart  |-> Uint32At(data, 16),
                       DbgEnd    |-> Uint32At(data, 20),
                       TypeIndex |-> Uint32At(data, 24),
                       Offset    |-> Uint32At(data, 28),
                       Segment   |-> Uint16At(data, 32),
                       Flags     |-> data[35],
                       Name      |-> IF Len(data) > 35
                                     THEN Str(extractCString(Drop(data, 35)))
                                     ELSE << >>] >>]

\* The loop of Functions over the records that ParseSymbols returned for a
\* symbol stream: the ProcSym of each procedure record that parses, with
\* IsGlobalSymbol of its kind, from the i-th record on.
RECURSIVE ProcSymsFrom(_, _, _)
ProcSymsFrom(symbols, i, procs) ==
    IF i > Len(symbols) THEN [kind |-> "ok", procs |-> procs]
    ELSE IF ~IsProcKind(symbols[i].Kind) THEN ProcSymsFrom(symbols, i + 1, procs)
    ELSE LET withProc(parsed) ==
                 IF parsed.kind = "panic" THEN [kind |-> "panic", procs |-> procs]
                 ELSE IF parsed.kind = "error" THEN ProcSymsFrom(symbols, i + 1, procs)
                 ELSE ProcSymsFrom(symbols, i + 1,
                                   Append(procs, [proc     |-> parsed.proc[1],
                                                  IsGlobal |-> IsGlobalKind(symbols[i].Kind)]))
         IN  withProc(ParseProcSym(symbols[i].Data))

\* What Functions makes of the bytes of a symbol stream.
ProcSyms(data) == ProcSymsFrom(ParseSymbols(data), 1, << >>)

CallParseSymbols ==
    /\ symIn # << >>
    /\ symOut = << >>
    /\ symOut' = << [fn |-> "ParseSymbols", symbols |-> ParseSymbols(symIn[1])] >>
    /\ UNCHANGED <<symIn, dmVars, numVars, tyVars, dbiVars, sbVars, msfVars, aboveMSF>>

CallParseProcSym ==
    /\ symIn # << >>
    /\ symOut = << >>
    /\ symOut' = << [fn |-> "ParseProcSym", result |-> ParseProcSym(symIn[1])] >>
    /\ UNCHANGED <<symIn, dmVars, numVars, tyVars, dbiVars, sbVars, msfVars, aboveMSF>>

\* The loop of Functions() on a symbol record stream that holds the bytes.
CallProcSyms ==
    /\ symIn # << >>
    /\ symOut = << >>
    /\ symOut' = << [fn |-> "ProcSyms", result |-> ProcSyms(symIn[1])] >>
    /\ UNCHANGED <<symIn, dmVars, numVars, tyVars, dbiVars, sbVars, msfVars, aboveMSF>>

(***************************************************************************)
(* Symbol buffers: with or without a signature, up to MaxSymRecords        *)
(* records (procedure records with payloads around the 35-byte header,    *)
(* records of length 0 and 1, a record that runs past the end), cut by up  *)
(* to MaxSymCut bytes; and procedure payloads of every length.             *)
(***************************************************************************)
MaxSymRecords == 2

MaxSymCut == 3

\* parent, end, next, length, dbg_start, dbg_end, type_index, offset,
\* segment, flags, name "ab"
ProcPayload ==
    EncodeLE32(1) \o EncodeLE32(2) \o EncodeLE32(3) \o EncodeLE32(16) \o EncodeLE32(5)
      \o EncodeLE32(6) \o EncodeLE32(T_INT4) \o EncodeLE32(64) \o LE16(1) \o <<0>>
      \o <<97, 98, 0>>

SymRecordBytes(kind, payload) == LE16(2 + Len(payload)) \o LE16(kind) \o payload

SymRecordChoices ==
    { SymRecordBytes(S_GPROC32, Take(ProcPayload, n)) : n \in {31, 32, 34, 35, 36, 38} }
      \cup { SymRecordBytes(S_PUB32, <<99, 0>>), SymRecordBytes(S_LPROC32, << >>),
             <<0, 0>>, <<1, 0, 9>>, LE16(200) \o LE16(S_PUB32) }

SymSignatures == { << >>, EncodeLE32(4), EncodeLE32(5) }

SymBuffers ==
    { Take(sig \o Concat(records), Len(sig \o Concat(records)) - cut) :
        sig \in SymSignatures,
        records \in UNION { SeqsOver(SymRecordChoices, n) : n \in 0 .. MaxSymRecords },
        cut \in 0 .. MaxSymCut }
      \cup { Take(ProcPayload, n) : n \in 0 .. Len(ProcPayload) }

InitSymbols ==
    /\ DMIdle
    /\ NumIdle
    /\ TyIdle
    /\ DBIIdle
    /\ SBIdle
    /\ MSFIdle
    /\ AboveMSFIdle
    /\ symOut = << >>
    /\ \E data \in SymBuffers : symIn = << data >>

NextSymbols ==
    \/ CallParseSymbols
    \/ CallParseProcSym
    \/ CallProcSyms

SpecSymbols == InitSymbols /\ [][NextSymbols]_vars

\* C27: ParseProcSym never reads outside its payload: a payload shorter than
\* the 35-byte procedure header gets an error and no ProcSym, and Functions()
\* does not panic on a procedure record of any length.
C27_ProcSymInBounds ==
    /\ (symOut # << >> /\ symOut[1].fn = "ParseProcSym")
         => /\ symOut[1].result.kind # "panic"
            /\ Len(symIn[1]) < 35
                 => symOut[1].result.kind = "error" /\ symOut[1].result.proc = << >>
    /\ (symOut # << >> /\ symOut[1].fn = "ProcSyms")
         => symOut[1].result.kind # "panic"

\* The offset at which the record after the first k returned records begins,
\* when the first one begins at `start`: each takes its length field, its
\* kind and its payload.
RECURSIVE OffsetAfter(_, _, _)
OffsetAfter(symbols, start, k) ==
    IF k = 0 THEN start
    ELSE OffsetAfter(symbols, start, k - 1) + 4 + Len(symbols[k].Data)

\* The record laid out at `offset` of data is whole and is `sym`.
RecordAt(data, offset, sym) ==
    /\ offset + 4 <= Len(data)
    /\ Uint16At(data, offset) >= 2
    /\ offset + 2 + Uint16At(data, offset) <= Len(data)
    /\ sym.Kind = Uint16At(data, offset + 2)
    /\ Len(sym.Data) = Uint16At(data, offset) - 2
    /\ sym.Data = SubSeq(data, offset + 5, offset + 2 + Uint16At(data, offset))

\* No whole record begins at `offset`: the buffer ends, or the length is
\* below 2, or the record runs past the end.
StopsAt(data, offset) ==
    \/ offset + 4 > Len(data)
    \/ Uint16At(data, offset) < 2
    \/ offset + 2 + Uint16At(data, offset) > Len(data)

\* C29: ParseSymbols returns on every buffer and reads inside it: the walk
\* starts at offset 4 when the first u32 is 4 and at 0 otherwise, each record
\* returned has the kind of its first u16 and a payload of length - 2 bytes,
\* the records come in buffer order, and the walk stops at the first record
\* whose length is below 2 or which runs past the end of the buffer.
C29_ParseSymbols ==
    (symOut # << >> /\ symOut[1].fn = "ParseSymbols")
    => LET data    == symIn[1]
           symbols == symOut[1].symbols
           start   == IF Len(data) >= 4 /\ SubSeq(data, 1, 4) = <<4, 0, 0, 0>> THEN 4 ELSE 0
       IN  /\ \A k \in 1 .. Len(symbols) :
                RecordAt(data, OffsetAfter(symbols, start, k - 1), symbols[k])
           /\ StopsAt(data, OffsetAfter(symbols, start, Len(symbols)))

\* C29's case: behind a signature, one record was returned and the walk
\* stopped at a second whose length runs past the end of the buffer.
C29_Witness ==
    /\ symOut # << >>
    /\ symOut[1].fn = "ParseSymbols"
    /\ Len(symIn[1]) >= 4
    /\ SubSeq(symIn[1], 1, 4) = <<4, 0, 0, 0>>
    /\ Len(symOut[1].symbols) = 1
    /\ OffsetAfter(symOut[1].symbols, 4, 1) + 4 <= Len(symIn[1])
    /\ Uint16At(symIn[1], OffsetAfter(symOut[1].symbols, 4, 1)) >= 2

(***************************************************************************)
(* streams/dbi.go and pdb.go (the facade)                                  *)
(*                                                                         *)
(* The facade sees the file as the list of its streams.  A stream is       *)
(* [size, data, cut]: cut says that the file ends before one of the        *)
(* stream's blocks.  The info and TPI streams are bytes; the DBI stream,   *)
(* the symbol streams and the section header stream are held as what       *)
(* their parsers make of the bytes.                                        *)
(***************************************************************************)
StreamPDB == 1

StreamTPI == 2

StreamDBI == 3

\* 0xFFFF: no stream
NoStream == 65535

DBIHeaderSize == 64

\* ReadDBIStream(data): its error and its *DBIStream.
ReadDBIStream(data) ==
    IF data.len < DBIHeaderSize
    THEN [err |-> Errorf("DBI stream too small: %d bytes", data.len), dbi |-> << >>]
    ELSE IF data.VersionSignature # -1
    THEN [err |-> Errorf("invalid DBI version signature: %d", data.VersionSignature),
          dbi |-> << >>]
    ELSE [err |-> NoError,
          dbi |-> << [Header      |-> [SymRecordStream |-> data.SymRecordStream],
                      Modules     |-> data.Modules,
                      SectionMap  |-> data.SectionMap,
                      DebugHeader |-> data.DebugHeader] >>]

\* ModuleInfo.HasSymbols
HasSymbols(mod) == mod.ModuleSymStream # NoStream /\ mod.SymByteSize > 0

\* The symbol kinds of the files for which IsProcSymbol, IsDataSymbol and
\* IsGlobalSymbol hold, and the kind PublicSymbols takes.
IsProcSymbol == {"S_GPROC32", "S_LPROC32"}

IsDataSymbol == {"S_GDATA32", "S_LDATA32"}

IsGlobalSymbol == {"S_GPROC32", "S_GDATA32", "S_PUB32"}

IsPublicSymbol == {"S_PUB32"}

\* What a facade method gets from m.Stream(index), Size() and ReadAll():
\* nothing (no such stream, an empty one, or a read error), the data, or no
\* return at all (Read loops on a stream the file does not hold: see
\* ReadLoopBody).  reads counts the ReadAll calls.
NoData == [kind |-> "none", data |-> << >>, reads |-> 0]

Fetch(img, closed, index) ==
    IF index < 0 \/ index >= Len(img.streams) THEN NoData
    ELSE LET stream == img.streams[index + 1]
         IN  IF stream.size = 0 THEN NoData
             ELSE IF closed THEN [NoData EXCEPT !.reads = 1]
             ELSE IF stream.cut THEN [kind |-> "hang", data |-> << >>, reads |-> 1]
             ELSE [kind |-> "ok", data |-> stream.data, reads |-> 1]

\* pdb.Open(path) on the file img: the error, the *PDB and the streams read.
PDBOpen(img) ==
    IF img.openErr
    THEN [kind |-> "ret", err |-> Wrap("failed to open MSF: %w", Errorf("msf.Open", 0)),
          pdb |-> << >>, reads |-> 0]
    ELSE
      LET n       == Len(img.streams)
          infoCut == n > StreamPDB /\ img.streams[StreamPDB + 1].cut
                       /\ img.streams[StreamPDB + 1].size > 0
          pdbInfo == IF n > StreamPDB /\ ~infoCut
                     THEN ReadPDBInfo(img.streams[StreamPDB + 1].data).info
                     ELSE << >>
          tpiData == IF n > StreamTPI THEN Fetch(img, FALSE, StreamTPI) ELSE NoData
          tpi     == IF tpiData.kind = "ok" THEN ReadTPIStream(tpiData.data).tpi ELSE << >>
          dbiData == IF n > StreamDBI THEN Fetch(img, FALSE, StreamDBI) ELSE NoData
          dbi     == IF dbiData.kind = "ok" THEN ReadDBIStream(dbiData.data).dbi ELSE << >>
          secHdrStream == IF dbi # << >> /\ dbi[1].DebugHeader # << >>
                          THEN dbi[1].DebugHeader[1].SectionHdr
                          ELSE NoStream
          secData == IF secHdrStream # NoStream /\ n > secHdrStream
                     THEN Fetch(img, FALSE, secHdrStream)
                     ELSE NoData
          hangs   == infoCut \/ "hang" \in {tpiData.kind, dbiData.kind, secData.kind}
      IN  [kind  |-> IF hangs THEN "hang" ELSE "ret",
           err   |-> NoError,
           pdb   |-> << [closed         |-> FALSE,
                         pdbInfo        |-> pdbInfo,
                         tpi            |-> tpi,
                         dbi            |-> dbi,
                         sectionHeaders |-> IF secData.kind = "ok" THEN secData.data
                                            ELSE << >>,
                         functions      |-> << >>,
                         variables      |-> << >>,
                         publics        |-> << >>,
                         sections       |-> << >>] >>,
           reads |-> (IF n > StreamPDB THEN 1 ELSE 0)
                       + tpiData.reads + dbiData.reads + secData.reads]

\* A variant that goes on to the section map when the segment is not one of
\* the section headers.
SegmentToRVAFallingBack(p, segment, offset) ==
    LET map == IF p.dbi = << >> THEN << >> ELSE p.dbi[1].SectionMap
    IN  IF segment >= 1 /\ segment <= Len(p.sectionHeaders)
        THEN U32Add(p.sectionHeaders[segment].VirtualAddress, offset)
        ELSE IF segment = 0 \/ segment > Len(map) THEN 0
        ELSE U32Add(map[segment].Offset, offset)

\* PDB.SegmentToRVA(segment, offset), the sum in uint32.
SegmentToRVA(p, segment, offset) ==
    IF Len(p.sectionHeaders) > 0
    THEN IF segment = 0 \/ segment > Len(p.sectionHeaders) THEN 0
         ELSE U32Add(p.sectionHeaders[segment].VirtualAddress, offset)
    ELSE IF p.dbi = << >> \/ Len(p.dbi[1].SectionMap) = 0 THEN 0
    ELSE IF segment = 0 \/ segment > Len(p.dbi[1].SectionMap) THEN 0
    ELSE U32Add(p.dbi[1].SectionMap[segment].Offset, offset)

\* The entries a symbol list contributes to Functions (kinds = IsProcSymbol),
\* Variables (IsDataSymbol) or PublicSymbols (S_PUB32).
Picked(p, symbols, kinds, module) ==
    LET wanted == SelectSeq(symbols, LAMBDA sym : sym.Kind \in kinds)
    IN  [i \in 1 .. Len(wanted) |->
           [Name     |-> wanted[i].Name,
            Offset   |-> wanted[i].Offset,
            Segment  |-> wanted[i].Segment,
            RVA      |-> SegmentToRVA(p, wanted[i].Segment, wanted[i].Offset),
            IsGlobal |-> wanted[i].Kind \in IsGlobalSymbol,
            Module   |-> module]]

\* The global symbols stream part of Functions, Variables and PublicSymbols.
FromSymRecords(p, img, kinds) ==
    IF p.dbi # << >> /\ p.dbi[1].Header.SymRecordStream # NoStream
    THEN LET got == Fetch(img, p.closed, p.dbi[1].Header.SymRecordStream)
         IN  [kind  |-> IF got.kind = "hang" THEN "hang" ELSE "ret",
              list  |-> IF got.kind = "ok" THEN Picked(p, got.data, kinds, "") ELSE << >>,
              reads |-> got.reads]
    ELSE [kind |-> "ret", list |-> << >>, reads |-> 0]

\* The loop over the modules in Functions and Variables, from module i on.
RECURSIVE FromModules(_, _, _, _, _)
FromModules(p, img, kinds, i, acc) ==
    IF acc.kind = "hang" \/ p.dbi = << >> \/ i > Len(p.dbi[1].Modules) THEN acc
    ELSE LET mod == p.dbi[1].Modules[i]
             got == IF HasSymbols(mod) THEN Fetch(img, p.closed, mod.ModuleSymStream)
                    ELSE NoData
             symData == IF Len(got.data) > mod.SymByteSize
                        THEN SubSeq(got.data, 1, mod.SymByteSize)
                        ELSE got.data
         IN  FromModules(p, img, kinds, i + 1,
               [kind  |-> IF got.kind = "hang" THEN "hang" ELSE "ret",
                list  |-> IF got.kind = "ok"
                          THEN acc.list \o Picked(p, symData, kinds, mod.ModuleName)
                          ELSE acc.list,
                reads |-> acc.reads + got.reads])

\* A call served from the cached list.
Cached(p, list) ==
    [kind |-> "ret", pdb |-> p, list |-> list, reads |-> 0, computed |-> FALSE]

\* A variant of Functions that computes the list on every call.
FunctionsUncached(p, img) ==
    LET found == FromModules(p, img, IsProcSymbol, 1, FromSymRecords(p, img, IsProcSymbol))
    IN  [kind |-> found.kind, pdb |-> [p EXCEPT !.functions = << found.list >>],
         list |-> found.list, reads |-> found.reads, computed |-> TRUE]

\* PDB.Functions()
Functions(p, img) ==
    IF p.functions # << >> THEN Cached(p, p.functions[1])
    ELSE LET found == FromModules(p, img, IsProcSymbol, 1,
                                  FromSymRecords(p, img, IsProcSymbol))
         IN  [kind |-> found.kind, pdb |-> [p EXCEPT !.functions = << found.list >>],
              list |-> found.list, reads |-> found.reads, computed |-> TRUE]

\* PDB.Variables()
Variables(p, img) ==
    IF p.variables # << >> THEN Cached(p, p.variables[1])
    ELSE LET found == FromModules(p, img, IsDataSymbol, 1,
                                  FromSymRecords(p, img, IsDataSymbol))
         IN  [kind |-> found.kind, pdb |-> [p EXCEPT !.variables = << found.list >>],
              list |-> found.list, reads |-> found.reads, computed |-> TRUE]

\* PDB.PublicSymbols()
PublicSymbols(p, img) ==
    IF p.publics # << >> THEN Cached(p, p.publics[1])
    ELSE LET found == FromSymRecords(p, img, IsPublicSymbol)
         IN  [kind |-> found.kind, pdb |-> [p EXCEPT !.publics = << found.list >>],
              list |-> found.list, reads |-> found.reads, computed |-> TRUE]

\* PDB.Sections(): from the PE section headers, else from the section map
\* without a first entry of length 0.
Sections(p, img) ==
    IF p.sections # << >> THEN Cached(p, p.sections[1])
    ELSE LET fromHeaders == [i \in 1 .. Len(p.sectionHeaders) |->
                               [Index  |-> i,
                                Name   |-> p.sectionHeaders[i].Name,
                                Offset |-> p.sectionHeaders[i].VirtualAddress,
                                Length |-> p.sectionHeaders[i].VirtualSize]]
             map     == IF p.dbi = << >> THEN << >> ELSE p.dbi[1].SectionMap
             fromMap == [i \in 1 .. Len(map) |->
                           [Index  |-> i,
                            Name   |-> "",
                            Offset |-> map[i].Offset,
                            Length |-> map[i].SectionLength]]
             list    == IF Len(p.sectionHeaders) > 0 THEN fromHeaders
                        ELSE IF Len(map) = 0 THEN << >>
                        ELSE IF map[1].SectionLength = 0 THEN Tail(fromMap)
                        ELSE fromMap
         IN  [kind |-> "ret", pdb |-> [p EXCEPT !.sections = << list >>],
              list |-> list, reads |-> 0, computed |-> TRUE]

\* The lists the facade caches.
\* The Members of a TypeInfo from those of a ParsedType.
TypeInfoMembers(members) ==
    [i \in 1 .. Len(members) |->
       [Name |-> members[i].Name, TypeName |-> members[i].TypeName,
        Offset |-> members[i].Offset]]

TypeInfo(index, kind, name, size, signature, members) ==
    [Index |-> index, Kind |-> kind, Name |-> name, Size |-> size,
     Signature |-> signature, Members |-> members]

\* The end of PDB.ResolveType: the TypeInfo of a structure, class, union or
\* enum that was parsed, else the basic one with the rendering as signature.
\* Of a record of another kind nothing is parsed.
TypeInfoOf(index, rec, parsed, signature) ==
    IF parsed.end # Returned THEN [type |-> << >>, end |-> parsed.end]
    ELSE IF parsed.parsed # << >>
    THEN [type |-> << TypeInfo(parsed.parsed[1].Index, parsed.parsed[1].KindName,
                               parsed.parsed[1].Name, parsed.parsed[1].Size,
                               parsed.parsed[1].Signature,
                               TypeInfoMembers(parsed.parsed[1].Members)) >>,
          end |-> Returned]
    ELSE IF Overflows(signature) THEN [type |-> << >>, end |-> StackOverflow]
    ELSE [type |-> << TypeInfo(index, LeafKindName(rec[1].Kind), << >>, U64Zero,
                               signature, << >>) >>,
          end |-> Returned]

\* The record kinds PDB.ResolveType parses as a structure and as an enum.
StructureKinds == {LF_STRUCTURE, LF_STRUCTURE_newformat, LF_CLASS, LF_CLASS_newformat,
                   LF_UNION, LF_UNION_newformat}

EnumKinds == {LF_ENUM, LF_ENUM_newformat}

\* PDB.ResolveType(index): nil (<< >>) or the *TypeInfo, when it returns.
\* p.resolver is NewTypeResolver(p.tpi) whenever p.tpi is not nil.
PDBResolveType(p, index) ==
    IF p.tpi = << >> THEN [type |-> << >>, end |-> Returned]
    ELSE IF U32Less(index, TypeIndexBegin)
    THEN [type |-> << TypeInfo(index, <<"builtin">>, GetBuiltinTypeName(index),
                               U64Zero, GetBuiltinTypeName(index), << >>) >>,
          end |-> Returned]
    ELSE IF GetType(p.tpi[1], index) = << >> THEN [type |-> << >>, end |-> Returned]
    ELSE TypeInfoOf(index, GetType(p.tpi[1], index),
                    IF GetType(p.tpi[1], index)[1].Kind \in StructureKinds
                    THEN ParseStructureType(NewTypeResolver(p.tpi).tpi,
                                            GetType(p.tpi[1], index))
                    ELSE IF GetType(p.tpi[1], index)[1].Kind \in EnumKinds
                    THEN ParseEnumType(NewTypeResolver(p.tpi).tpi, GetType(p.tpi[1], index))
                    ELSE [parsed |-> << >>, end |-> Returned],
                    ResolveType(NewTypeResolver(p.tpi).tpi, index))

CachedLists == {"Functions", "Variables", "PublicSymbols", "Sections"}

NoPDBRet == [fn |-> "none", kind |-> "ret", err |-> NoError, list |-> << >>,
             computed |-> FALSE, index |-> 0, type |-> << >>]

\* The facade takes a call: there is a handle and no call is stuck.
PDBReady == pdb # << >> /\ pdbRet.kind = "ret"

\* The bookkeeping of a call of fn that ended as res.
PDBReturn(fn, res) ==
    /\ pdb' = << res.pdb >>
    /\ pdbRet' = [fn |-> fn, kind |-> res.kind, err |-> NoError,
                  list |-> IF res.kind = "ret" THEN res.list ELSE << >>,
                  computed |-> res.computed, index |-> 0, type |-> << >>]
    /\ pdbFirst' = IF res.kind = "ret" /\ pdbFirst[fn] = << >>
                   THEN [pdbFirst EXCEPT ![fn] = << res.list >>]
                   ELSE pdbFirst
    /\ pdbWork' = [reads    |-> pdbWork.reads + res.reads,
                   computed |-> IF res.computed
                                THEN [pdbWork.computed EXCEPT ![fn] = @ + 1]
                                ELSE pdbWork.computed,
                   turn     |-> 1 - pdbWork.turn]
    /\ UNCHANGED <<pureVars, pdbImg, sbVars, msfVars, tpiVars, infoVars>>

CallPDBOpen ==
    /\ pdbRet.fn = "none"
    /\ LET res == PDBOpen(pdbImg)
       IN  /\ pdb' = IF res.kind = "ret" THEN res.pdb ELSE << >>
           /\ pdbRet' = [NoPDBRet EXCEPT !.fn = "Open", !.kind = res.kind, !.err = res.err]
           /\ pdbWork' = [pdbWork EXCEPT !.reads = @ + res.reads, !.turn = 1 - @]
    /\ UNCHANGED <<pureVars, pdbImg, pdbFirst, sbVars, msfVars, tpiVars, infoVars>>

CallFunctions == PDBReady /\ PDBReturn("Functions", Functions(pdb[1], pdbImg))

CallVariables == PDBReady /\ PDBReturn("Variables", Variables(pdb[1], pdbImg))

CallPublicSymbols == PDBReady /\ PDBReturn("PublicSymbols", PublicSymbols(pdb[1], pdbImg))

CallSections == PDBReady /\ PDBReturn("Sections", Sections(pdb[1], pdbImg))

\* What a call of ResolveType(index) that ended as res leaves in pdbRet.
ResolveTypeRet(index, res) ==
    [NoPDBRet EXCEPT !.fn = "ResolveType",
                     !.kind = IF res.end = Returned THEN "ret" ELSE "hang",
                     !.index = index, !.type = res.type]

\* PDB.ResolveType(index); a call that never returns leaves the facade stuck.
CallPDBResolveType(index) ==
    /\ PDBReady
    /\ pdbRet' = ResolveTypeRet(index, PDBResolveType(pdb[1], index))
    /\ pdbWork' = [pdbWork EXCEPT !.turn = 1 - @]
    /\ UNCHANGED <<pureVars, pdb, pdbImg, pdbFirst, sbVars, msfVars, tpiVars, infoVars>>

\* PDB.Close(): closes the file; a second Close reports that it is closed.
CallPDBClose ==
    /\ PDBReady
    /\ pdb' = << [pdb[1] EXCEPT !.closed = TRUE] >>
    /\ pdbRet' = [NoPDBRet EXCEPT !.fn = "Close",
                                  !.err = IF pdb[1].closed THEN ErrClosed ELSE NoError]
    /\ pdbWork' = [pdbWork EXCEPT !.turn = 1 - @]
    /\ UNCHANGED <<pureVars, pdbImg, pdbFirst, sbVars, msfVars, tpiVars, infoVars>>

(***************************************************************************)
(* The PDB files handed to the facade.  Streams by index: 0 the old        *)
(* directory, 1 PDB info, 2 TPI, 3 DBI, 4 IPI, 5 the symbol records, 6 the *)
(* symbols of a module, 7 the PE section headers.                          *)
(***************************************************************************)
StreamOf(size, data, cut) == [size |-> size, data |-> data, cut |-> cut]

Bytes(data) == StreamOf(Len(data), data, FALSE)

EmptyStream == StreamOf(0, << >>, FALSE)

PDBTPIStreams ==
    { Bytes(TPIData(TPIStreamVersionV80, TypeIndexBegin + 1, 4, <<2, 0, 1, 16>>)),
      Bytes(TPIData(TPIStreamVersion50, TypeIndexBegin + 1, 4, <<2, 0, 1, 16>>)),
      Bytes(TypeStream(<< StructRecord(LF_STRUCTURE, 0, TypeIndexBegin + 1),
                          TypeRecordBytes(LF_FIELDLIST,
                                          MemberField(LF_MEMBER, 97, 0)
                                            \o StaticMemberField(115)) >>)),
      EmptyStream }

DBIData(signature, symRecordStream, modules, sectionMap, debugHeader) ==
    [len |-> DBIHeaderSize + 22, VersionSignature |-> signature,
     SymRecordStream |-> symRecordStream, Modules |-> modules,
     SectionMap |-> sectionMap, DebugHeader |-> debugHeader]

PDBModules ==
    << [ModuleSymStream |-> NoStream, SymByteSize |-> 0, ModuleName |-> "a.obj"],
       [ModuleSymStream |-> 6, SymByteSize |-> 2, ModuleName |-> "b.obj"] >>

PDBSectionMap ==
    << [Offset |-> 0, SectionLength |-> 0], [Offset |-> 4096, SectionLength |-> 512] >>

PDBDBIStreams ==
    { StreamOf(DBIHeaderSize + 22,
               DBIData(-1, 5, PDBModules, PDBSectionMap, << [SectionHdr |-> 7] >>), FALSE),
      StreamOf(DBIHeaderSize + 22,
               DBIData(0, 5, PDBModules, PDBSectionMap, << [SectionHdr |-> 7] >>), FALSE),
      StreamOf(DBIHeaderSize + 22, DBIData(-1, NoStream, << >>, << >>, << >>), FALSE),
      EmptyStream }

PDBSymRecords ==
    << [Kind |-> "S_GPROC32", Name |-> "main", Segment |-> 1, Offset |-> 16],
       [Kind |-> "S_GDATA32", Name |-> "counter", Segment |-> 2, Offset |-> 32],
       [Kind |-> "S_PUB32", Name |-> "_main", Segment |-> 1, Offset |-> 16],
       [Kind |-> "S_PUB32", Name |-> "_counter", Segment |-> 2, Offset |-> 32],
       [Kind |-> "S_PUB32", Name |-> "_abs", Segment |-> 0, Offset |-> 64] >>

PDBModuleSymbols ==
    << [Kind |-> "S_LPROC32", Name |-> "helper", Segment |-> 2, Offset |-> 8],
       [Kind |-> "S_LDATA32", Name |-> "table", Segment |-> 3, Offset |-> 4],
       [Kind |-> "S_LPROC32", Name |-> "beyond SymByteSize", Segment |-> 1, Offset |-> 0] >>

PDBSectionHeaders ==
    { << [Name |-> ".text", VirtualAddress |-> 4096, VirtualSize |-> 512] >>,
      << [Name |-> ".text", VirtualAddress |-> 4096, VirtualSize |-> 512],
         [Name |-> ".data", VirtualAddress |-> -16, VirtualSize |-> 16] >>,
      << >> }

\* the type indexes asked of the facade: two built-in types, the record of
\* the TPI stream and one past it
PDBTypeIndexes == {T_INT4, 1024 + T_INT4, TypeIndexBegin, TypeIndexBegin + 1}

PDBStreamCounts == {2, 3, 4, 8}

PDBImage(n, tpi, dbi, symCut, headers) ==
    [openErr |-> FALSE,
     streams |-> Take(<< EmptyStream,
                         Bytes(InfoStream(2 ^ MaxNames - 1)),
                         tpi,
                         dbi,
                         EmptyStream,
                         StreamOf(5 * 16, PDBSymRecords, symCut),
                         StreamOf(3 * 16, PDBModuleSymbols, FALSE),
                         StreamOf(40 * Len(headers), headers, FALSE) >>, n)]

NoPDBImage == [openErr |-> TRUE, streams |-> << >>]

InitPDB ==
    /\ PureIdle
    /\ SBIdle
    /\ MSFIdle
    /\ TPIIdle
    /\ InfoIdle
    /\ \/ pdbImg = NoPDBImage
       \/ \E n \in PDBStreamCounts, tpi \in PDBTPIStreams, dbi \in PDBDBIStreams,
             symCut \in BOOLEAN, headers \in PDBSectionHeaders :
             pdbImg = PDBImage(n, tpi, dbi, symCut, headers)
    /\ pdb = << >>
    /\ pdbRet = NoPDBRet
    /\ pdbFirst = [fn \in CachedLists |-> << >>]
    /\ pdbWork = [reads |-> 0, computed |-> [fn \in CachedLists |-> 0], turn |-> 0]

NextPDB ==
    \/ CallPDBOpen
    \/ CallFunctions
    \/ CallVariables
    \/ CallPublicSymbols
    \/ CallSections
    \/ \E index \in PDBTypeIndexes : CallPDBResolveType(index)
    \/ CallPDBClose

SpecPDB == InitPDB /\ [][NextPDB]_vars

\* The file has a TPI stream whose header names a version other than V70
\* and V80.
TPIVersionUnsupported(img) ==
    /\ Len(img.streams) > StreamTPI
    /\ LET stream == img.streams[StreamTPI + 1]
       IN  /\ stream.size >= TPIHeaderSize
           /\ ~stream.cut
           /\ TPIHeaderOf(stream.data).Version
                \notin {TPIStreamVersionV70, TPIStreamVersionV80}

\* The file has a DBI stream whose version signature is not -1.
DBISignatureInvalid(img) ==
    /\ Len(img.streams) > StreamDBI
    /\ LET stream == img.streams[StreamDBI + 1]
       IN  /\ stream.size >= DBIHeaderSize
           /\ ~stream.cut
           /\ stream.data.VersionSignature # -1

\* C5: when the DBI stream's version signature is not -1, and when the TPI
\* stream's version is neither V70 nor V80, the facade's Open returns an
\* error and no usable PDB handle.
C5_OpenSurfacesErrors ==
    (pdbRet.fn # "none" /\ pdbRet.kind = "ret"
       /\ (DBISignatureInvalid(pdbImg) \/ TPIVersionUnsupported(pdbImg)))
      => /\ pdb = << >>
         /\ pdbRet.fn = "Open" => pdbRet.err # NoError

\* A step that is a call of fn after a call of fn has returned.
LaterCall(fn) ==
    /\ pdbWork'.turn # pdbWork.turn
    /\ pdbRet'.fn = fn
    /\ pdbFirst[fn] # << >>

C9_Step ==
    \A fn \in CachedLists :
       /\ pdbWork'.computed[fn] <= 1
       /\ LaterCall(fn) => /\ pdbRet'.kind = "ret"
                           /\ pdbRet'.list = pdbFirst[fn][1]
                           /\ pdbWork'.reads = pdbWork.reads

\* C9: each of Functions, Variables, PublicSymbols and Sections computes its
\* list at most once; every call after the first, in any interleaving with
\* the other facade calls and Close, returns the list the first call
\* returned and reads no stream, also when that list is empty.
C9_ListsComputedOnce == [][C9_Step]_vars

\* C9's case: after Close, Functions returned its non-empty list again
\* without computing it.
C9_Witness ==
    /\ pdb # << >>
    /\ pdb[1].closed
    /\ pdbRet.fn = "Functions"
    /\ ~pdbRet.computed
    /\ Len(pdbRet.list) > 0
    /\ pdbFirst["Functions"] = << pdbRet.list >>

\* The segment:offset pair as the claim converts it: through the loaded
\* section headers if there is one, else through the section map.
ExpectedRVA(headers, map, segment, offset) ==
    IF Len(headers) > 0
    THEN IF segment \in 1 .. Len(headers)
         THEN U32Add(headers[segment].VirtualAddress, offset) ELSE 0
    ELSE IF segment \in 1 .. Len(map)
         THEN U32Add(map[segment].Offset, offset) ELSE 0

C11_BuiltinByIndexAlone ==
    (/\ pdbRet.fn = "ResolveType"
     /\ U32Less(pdbRet.index, TypeIndexBegin))
    => /\ pdbRet.kind = "ret"
       /\ pdbRet.type = << TypeInfo(pdbRet.index, <<"builtin">>,
                                    GetBuiltinTypeName(pdbRet.index), U64Zero,
                                    GetBuiltinTypeName(pdbRet.index), << >>) >>

(***************************************************************************)
(* streams/dbi.go: how ReadDBIStream cuts the stream into substreams.  The *)
(* stream is given by its length and the signed fields of its header; a    *)
(* substream is << >> (skipped) or <<lo, hi>>, the slice data[lo:hi]       *)
(* handed to its parser.  The parsers of the substreams stay inside the    *)
(* slice they are given and return no error.                               *)
(***************************************************************************)
\* data[lo:hi] of a slice of length and capacity len panics unless
\* 0 <= lo <= hi <= len.
SliceInRange(lo, hi, len) == 0 <= lo /\ lo <= hi /\ hi <= len

\* `if size > 0 { end := offset + size; if end <= len(data) { parse
\* data[offset:end] } }`
Substream(offset, size, len) ==
    IF size > 0 /\ offset + size <= len THEN <<offset, offset + size>> ELSE << >>

\* ReadDBIStream(data), as far as the slices it takes.
ReadDBISubstreams(data) ==
    IF data.len < DBIHeaderSize
    THEN [kind |-> "error", err |-> Errorf("DBI stream too small: %d bytes", data.len),
          slices |-> << >>]
    ELSE IF data.VersionSignature # -1
    THEN [kind |-> "error",
          err  |-> Errorf("invalid DBI version signature: %d", data.VersionSignature),
          slices |-> << >>]
    ELSE LET modInfoOffset    == DBIHeaderSize
             secContribOffset == modInfoOffset + data.ModInfoSize
             secMapOffset     == secContribOffset + data.SectionContributionSize
             dbgHeaderOffset  == DBIHeaderSize + data.ModInfoSize
                                   + data.SectionContributionSize + data.SectionMapSize
                                   + data.SourceInfoSize + data.TypeServerMapSize
                                   + data.ECSubstreamSize
             slices == << Substream(modInfoOffset, data.ModInfoSize, data.len),
                          Substream(secContribOffset, data.SectionContributionSize, data.len),
                          Substream(secMapOffset, data.SectionMapSize, data.len),
                          Substream(dbgHeaderOffset, data.OptionalDbgHeaderSize, data.len) >>
         IN  IF \E i \in 1 .. 4 :
                   slices[i] # << >> /\ ~SliceInRange(slices[i][1], slices[i][2], data.len)
             THEN [kind |-> "panic", err |-> NoError, slices |-> << >>]
             ELSE [kind |-> "ok", err |-> NoError, slices |-> slices]

CallReadDBIStream ==
    /\ dbiIn # << >>
    /\ dbiOut = << >>
    /\ dbiOut' = << ReadDBISubstreams(dbiIn[1]) >>
    /\ UNCHANGED <<dbiIn, dmVars, numVars, tyVars, symVars, sbVars, msfVars, aboveMSF>>

(***************************************************************************)
(* DBI streams: shorter than the header, the header alone, and longer;     *)
(* each substream size negative, zero or positive.                         *)
(***************************************************************************)
DBILengths == {DBIHeaderSize - 1, DBIHeaderSize, DBIHeaderSize + 36, DBIHeaderSize + 72}

DBISizes == {-36, 0, 8, 36}

DBISkippedSizes == {-36, 0, 8}

DBIStreams ==
    [len : DBILengths, VersionSignature : {-1, 0}, ModInfoSize : DBISizes,
     SectionContributionSize : DBISizes, SectionMapSize : DBISizes,
     SourceInfoSize : DBISkippedSizes, TypeServerMapSize : DBISkippedSizes,
     ECSubstreamSize : DBISkippedSizes, OptionalDbgHeaderSize : DBISizes]

InitDBI ==
    /\ DMIdle
    /\ NumIdle
    /\ TyIdle
    /\ SymIdle
    /\ SBIdle
    /\ MSFIdle
    /\ AboveMSFIdle
    /\ dbiOut = << >>
    /\ \E data \in DBIStreams : dbiIn = << data >>

NextDBI == CallReadDBIStream

SpecDBI == InitDBI /\ [][NextDBI]_vars

\* C28: ReadDBIStream never slices the stream buffer outside [0, len(data)]:
\* whatever the signed substream sizes of the header are, negative values and
\* sums beyond the buffer included, each substream is parsed from a range
\* inside the buffer or skipped, and the call returns a result or an error.
C28_SlicesInBounds ==
    dbiOut # << >>
    => /\ dbiOut[1].kind # "panic"
       /\ \A i \in 1 .. Len(dbiOut[1].slices) :
            dbiOut[1].slices[i] # << >>
              => SliceInRange(dbiOut[1].slices[i][1], dbiOut[1].slices[i][2], dbiIn[1].len)

====
